---------------------------- MODULE Spec2Model ----------------------------
(***************************************************************************)
(* Model of the product validation report of shopify-reports:              *)
(*   configs/exclusions.py        ExclusionList                            *)
(*   shared/validation.py         ProductValidator, TagValidator           *)
(*   shared/csv_mapper.py         ValidationMapper                         *)
(*   shared/csv_generator.py      generate_import_csv                      *)
(*   reports/product_validation.py generate_validation_report              *)
(*                                                                         *)
(* Text is modelled as a sequence of one-character strings, so that        *)
(* formatting, escaping, case folding and substring tests are computed     *)
(* and not assumed.  Python's None for a text value is NoneStr, a dict key *)
(* that is missing is a record field that is missing.  A GraphQL           *)
(* connection {edges: [{node: n}, ...]} is the sequence of its nodes.      *)
(***************************************************************************)
EXTENDS Integers, Sequences, FiniteSets, TLC

(***************************************************************************)
(* Bounds of the model.                                                    *)
(***************************************************************************)
MaxBatch == 2

MaxImages == 2

MaxVariants == 2

MaxTags == 3

\* The most page queries one fetch sends
MaxPages == 2

\* The largest max_retries run_query_with_retries is called with
MaxRetries == 3

\* The largest max_calls and max_retries a rate limiter is made with
MaxCalls == 2

MaxLimiterRetries == 3

(***************************************************************************)
(* State.                                                                  *)
(*   catalog       the records the store returns to the run's fetch        *)
(*   run           "first" or "second": the report is run twice            *)
(*   validator, exclusions   the instances generate_validation_report      *)
(*                 constructs                                              *)
(*   products, pos_next   the fetched batch and the position of the loop   *)
(*                 in it                                                   *)
(*   issues_found, published_count, excluded_count   the report's locals   *)
(*   calls         the calls made on exclusions and validator, in order    *)
(*   result        the dict generate_validation_report returned            *)
(*   import_file   the file generate_import_csv wrote                      *)
(*   previous      the batch, result and file of the first run             *)
(*   pc            where the run is                                        *)
(*   input, call, args, ret   a single call of one function: its inputs,   *)
(*                 its name, its further arguments and what it returned    *)
(***************************************************************************)
VARIABLES catalog, run, validator, exclusions, products, pos_next, issues_found,
          published_count, excluded_count, calls, result, import_file, previous,
          pc, input, call, args, ret, server, fetch, retry, limiter, wrapper, clock

vars ==
    <<catalog, run, validator, exclusions, products, pos_next, issues_found,
      published_count, excluded_count, calls, result, import_file, previous, pc,
      input, call, args, ret, server, fetch, retry, limiter, wrapper, clock>>

report_vars ==
    <<catalog, run, validator, exclusions, products, pos_next, issues_found,
      published_count, excluded_count, calls, result, import_file, previous, pc>>

unit_vars == <<input, call, args, ret>>

fetch_vars == <<server, fetch>>

retry_vars == <<retry>>

limiter_vars == <<limiter, wrapper, clock>>

io_vars == <<server, fetch, retry, limiter, wrapper, clock>>

(***************************************************************************)
(* Text helpers: the str operations the source uses.                       *)
(***************************************************************************)
NoneStr == <<"None">>

UpperChars ==
    <<"A", "B", "C", "D", "E", "F", "G", "H", "I", "J", "K", "L", "M", "N", "O", "P",
      "Q", "R", "S", "T", "U", "V", "W", "X", "Y", "Z">>

LowerChars ==
    <<"a", "b", "c", "d", "e", "f", "g", "h", "i", "j", "k", "l", "m", "n", "o", "p",
      "q", "r", "s", "t", "u", "v", "w", "x", "y", "z">>

lower_char(c) ==
    IF \E i \in 1..Len(UpperChars) : UpperChars[i] = c
    THEN LowerChars[CHOOSE i \in 1..Len(UpperChars) : UpperChars[i] = c]
    ELSE c

\* str.lower()
lower(s) == [i \in 1..Len(s) |-> lower_char(s[i])]

\* str.startswith(prefix)
startswith(s, prefix) ==
    Len(prefix) <= Len(s) /\ SubSeq(s, 1, Len(prefix)) = prefix

\* sub in s
contains(s, sub) ==
    \E i \in 0..(Len(s) - Len(sub)) : SubSeq(s, i + 1, i + Len(sub)) = sub

\* Python truthiness of an optional text: None and "" are false
truthy(s) == s # NoneStr /\ s # <<>>

DigitChars == <<"0", "1", "2", "3", "4", "5", "6", "7", "8", "9">>

is_digit(c) == \E i \in 1..Len(DigitChars) : DigitChars[i] = c

digit_value(c) == (CHOOSE i \in 1..Len(DigitChars) : DigitChars[i] = c) - 1

RECURSIVE str_int(_)
\* str(n) of a natural number
str_int(n) ==
    IF n < 10 THEN <<DigitChars[n + 1]>>
    ELSE str_int(n \div 10) \o <<DigitChars[(n % 10) + 1]>>

RECURSIVE int_prefix(_, _)
\* int() of the first k digits of s
int_prefix(s, k) ==
    IF k = 0 THEN 0 ELSE 10 * int_prefix(s, k - 1) + digit_value(s[k])

\* int(s) of a text of decimal digits
int_str(s) == int_prefix(s, Len(s))

WhitespaceChars == {" ", "\t", "\n", "\r"}

RECURSIVE lstrip(_)
lstrip(s) ==
    IF s # <<>> /\ Head(s) \in WhitespaceChars THEN lstrip(Tail(s)) ELSE s

RECURSIVE rstrip(_)
rstrip(s) ==
    IF s # <<>> /\ s[Len(s)] \in WhitespaceChars
    THEN rstrip(SubSeq(s, 1, Len(s) - 1))
    ELSE s

\* str.strip()
strip(s) == rstrip(lstrip(s))

RECURSIVE join(_, _)
\* sep.join(list)
join(sep, list) ==
    IF list = <<>> THEN <<>>
    ELSE IF Len(list) = 1 THEN list[1]
    ELSE list[1] \o sep \o join(sep, Tail(list))

\* Python's None in the place of a list and in the place of a dict (in the
\* place of a text it is NoneStr)
NoneList == << [none |-> TRUE] >>

NoneDict == [none |-> TRUE]

\* d is None, d standing in the place of a dict
is_none(d) == "none" \in DOMAIN d

\* An exception raised by a call, in the place of the list the call returns
Raise(kind) == << [raised |-> kind] >>

\* The call raised
raised(r) == r # <<>> /\ "raised" \in DOMAIN r[1]

\* issues.extend(more), more being the result of a call: an exception
\* raised before or by the call ends the caller
extend(issues, more) ==
    IF raised(issues) THEN issues
    ELSE IF raised(more) THEN more
    ELSE issues \o more

\* dict.get(key, default) on a record
Get(d, key, default) == IF key \in DOMAIN d THEN d[key] ELSE default

\* A local variable: the value v, computed once, named in Body
Let(v, Body(_)) == CHOOSE y \in {Body(x) : x \in {v}} : TRUE

(***************************************************************************)
(* configs/exclusions.py                                                   *)
(***************************************************************************)
PatClass == <<"C", "l", "a", "s", "s", ":">>
PatGiftCard == <<"G", "i", "f", "t", " ", "C", "a", "r", "d">>
PatLimitedEdition ==
    <<"L", "i", "m", "i", "t", "e", "d", " ", "E", "d", "i", "t", "i", "o", "n">>
PatCleanOut == <<"C", "l", "e", "a", "n", " ", "O", "u", "t">>
PatOP == <<"O", "P", ":">>
PatTalkTaste == <<"T", "a", "l", "k", " ", "&", " ", "T", "a", "s", "t", "e">>
PatLeJournal ==
    <<"L", "e", " ", "J", "o", "u", "r", "n", "a", "l", " ", "d", "u", " ", "P", "a",
      "t", "i", "s", "s", "i", "e", "r">>
PatCookbookClub == <<"C", "o", "o", "k", "b", "o", "o", "k", " ", "C", "l", "u", "b">>
TitleKALGiftCard ==
    <<"K", "i", "t", "c", "h", "e", "n", " ", "A", "r", "t", "s", " ", "&", " ", "L",
      "e", "t", "t", "e", "r", "s", " ", "G", "i", "f", "t", " ", "C", "a", "r", "d">>
ExactTitlePrefix ==
    <<"E", "x", "a", "c", "t", " ", "t", "i", "t", "l", "e", " ", "m", "a", "t", "c",
      "h", ":", " ">>
PartialTitlePrefix ==
    <<"P", "a", "r", "t", "i", "a", "l", " ", "t", "i", "t", "l", "e", " ", "m", "a",
      "t", "c", "h", ":", " ">>
BarcodePrefix ==
    <<"B", "a", "r", "c", "o", "d", "e", " ", "m", "a", "t", "c", "h", ":", " ">>
UrlPrefix == <<"U", "R", "L", " ", "m", "a", "t", "c", "h", ":", " ">>
ProductUrlBase ==
    <<"h", "t", "t", "p", "s", ":", "/", "/", "k", "i", "t", "c", "h", "e", "n", "a",
      "r", "t", "s", "a", "n", "d", "l", "e", "t", "t", "e", "r", "s", ".", "c", "o",
      "m", "/", "p", "r", "o", "d", "u", "c", "t", "s", "/">>

\* ExclusionList.__init__: self.exact_titles
exact_titles == {TitleKALGiftCard}

\* ExclusionList.__init__: self.partial_patterns, in declared order
partial_patterns ==
    << [pattern |-> PatClass,          type |-> "starts_with"],
       [pattern |-> PatGiftCard,       type |-> "contains"],
       [pattern |-> PatLimitedEdition, type |-> "contains"],
       [pattern |-> PatCleanOut,       type |-> "contains"],
       [pattern |-> PatOP,             type |-> "starts_with"],
       [pattern |-> PatTalkTaste,      type |-> "starts_with"],
       [pattern |-> PatLeJournal,      type |-> "starts_with"],
       [pattern |-> PatCookbookClub,   type |-> "contains"] >>

\* The characters re.escape puts a backslash before (Python 3.7 and later).
ReSpecialChars ==
    {"(", ")", "[", "]", "{", "}", "?", "*", "+", "-", "|", "^", "$", "\\", ".",
     "&", "~", "#", " ", "\t", "\n", "\r"}

RECURSIVE re_escape(_)
\* re.escape(pattern)
re_escape(s) ==
    IF s = <<>> THEN <<>>
    ELSE (IF Head(s) \in ReSpecialChars THEN <<"\\", Head(s)>> ELSE <<Head(s)>>)
         \o re_escape(Tail(s))

\* pattern_regex that anchors no pattern
pattern_regex_unanchored(pattern_info) ==
    IF pattern_info.type \in {"starts_with", "contains"}
    THEN <<".", "*">> \o re_escape(pattern_info.pattern) \o <<".", "*">>
    ELSE NoneStr

\* The regex source _compile_patterns builds for one pattern; NoneStr for a
\* pattern type it skips.
pattern_regex(pattern_info) ==
    IF pattern_info.type = "starts_with"
    THEN <<"^">> \o re_escape(pattern_info.pattern)
    ELSE IF pattern_info.type = "contains"
    THEN <<".", "*">> \o re_escape(pattern_info.pattern) \o <<".", "*">>
    ELSE NoneStr

RECURSIVE compile_patterns(_)
\* ExclusionList._compile_patterns: the compiled patterns, each the object
\* re.compile(regex, re.IGNORECASE) whose .pattern is the regex source.
compile_patterns(patterns) ==
    IF patterns = <<>> THEN <<>>
    ELSE LET regex == pattern_regex(Head(patterns))
         IN  (IF regex = NoneStr THEN <<>>
              ELSE << [pattern |-> regex, flags |-> "IGNORECASE"] >>)
             \o compile_patterns(Tail(patterns))

RECURSIVE regex_tokens(_, _)
\* The regex source read as a sequence of tokens: "^" at the start is the
\* anchor, ".*" any run of characters but a line break, a backslash makes the
\* next character literal, any other character is literal.
regex_tokens(src, at_start) ==
    IF src = <<>> THEN <<>>
    ELSE IF at_start /\ Head(src) = "^"
    THEN << [kind |-> "bol"] >> \o regex_tokens(Tail(src), FALSE)
    ELSE IF Len(src) >= 2 /\ src[1] = "." /\ src[2] = "*"
    THEN << [kind |-> "any"] >> \o regex_tokens(SubSeq(src, 3, Len(src)), FALSE)
    ELSE IF Len(src) >= 2 /\ src[1] = "\\"
    THEN << [kind |-> "lit", char |-> src[2]] >>
         \o regex_tokens(SubSeq(src, 3, Len(src)), FALSE)
    ELSE << [kind |-> "lit", char |-> src[1]] >> \o regex_tokens(Tail(src), FALSE)

RECURSIVE regex_match_at(_, _, _)
\* Whether the tokens match the text from position i on (re.IGNORECASE).
regex_match_at(tokens, s, i) ==
    IF tokens = <<>> THEN TRUE
    ELSE LET t == Head(tokens)
         IN  IF t.kind = "bol" THEN i = 1 /\ regex_match_at(Tail(tokens), s, i)
             ELSE IF t.kind = "any"
             THEN \E j \in i..(Len(s) + 1) :
                     /\ \A k \in i..(j - 1) : s[k] # "\n"
                     /\ regex_match_at(Tail(tokens), s, j)
             ELSE /\ i <= Len(s)
                  /\ lower_char(s[i]) = lower_char(t.char)
                  /\ regex_match_at(Tail(tokens), s, i + 1)

\* compiled.search(title)
regex_search(compiled, s) ==
    LET tokens == regex_tokens(compiled.pattern, TRUE)
    IN  \E i \in 1..(Len(s) + 1) : regex_match_at(tokens, s, i)

\* ExclusionList(): the instance after __init__.  The source ships the barcode
\* and URL lists empty, with a place to add entries; the configured entries
\* are the constructor's inputs here.
ExclusionList(barcodes, urls) ==
    [exact_titles     |-> exact_titles,
     partial_patterns |-> partial_patterns,
     barcodes         |-> barcodes,
     urls             |-> urls,
     title_patterns   |-> compile_patterns(partial_patterns)]

RECURSIVE first_pattern_match(_, _)
\* The loop over self.title_patterns: the first compiled pattern that finds
\* a match in the title, or the empty record when none does.
first_pattern_match(title_patterns, title) ==
    IF title_patterns = <<>> THEN [found |-> FALSE]
    ELSE IF regex_search(Head(title_patterns), title)
    THEN [found |-> TRUE, pattern |-> Head(title_patterns)]
    ELSE first_pattern_match(Tail(title_patterns), title)

RECURSIVE first_barcode_match(_, _)
\* The loop over the variants: the first variant barcode that is set and in
\* self.barcodes.
first_barcode_match(variants, barcodes) ==
    IF variants = <<>> THEN [found |-> FALSE]
    ELSE LET barcode == Get(Head(variants), "barcode", NoneStr)
         IN  IF truthy(barcode) /\ barcode \in barcodes
             THEN [found |-> TRUE, barcode |-> barcode]
             ELSE first_barcode_match(Tail(variants), barcodes)

\* should_exclude with the URL stage ahead of the barcode stage
should_exclude_url_first(self, product) ==
    IF is_none(product) \/ DOMAIN product = {} THEN <<FALSE, NoneStr>>
    ELSE LET title == Get(product, "title", <<>>)
             pm    == first_pattern_match(self.title_patterns, title)
             bm    == first_barcode_match(Get(product, "variants", <<>>),
                                          self.barcodes)
             handle == Get(product, "handle", <<>>)
             url    == ProductUrlBase \o handle
         IN  IF ~truthy(title) THEN <<FALSE, NoneStr>>
             ELSE IF title \in self.exact_titles
             THEN <<TRUE, ExactTitlePrefix \o title>>
             ELSE IF pm.found
             THEN <<TRUE, PartialTitlePrefix \o pm.pattern.pattern>>
             ELSE IF truthy(handle) /\ url \in self.urls
             THEN <<TRUE, UrlPrefix \o url>>
             ELSE IF bm.found
             THEN <<TRUE, BarcodePrefix \o bm.barcode>>
             ELSE <<FALSE, NoneStr>>

\* should_exclude with the title guard after the title stages
should_exclude_title_last(self, product) ==
    IF is_none(product) \/ DOMAIN product = {} THEN <<FALSE, NoneStr>>
    ELSE LET title == Get(product, "title", <<>>)
             pm    == first_pattern_match(self.title_patterns, title)
             bm    == first_barcode_match(Get(product, "variants", <<>>),
                                          self.barcodes)
             handle == Get(product, "handle", <<>>)
             url    == ProductUrlBase \o handle
         IN  IF truthy(title) /\ title \in self.exact_titles
             THEN <<TRUE, ExactTitlePrefix \o title>>
             ELSE IF truthy(title) /\ pm.found
             THEN <<TRUE, PartialTitlePrefix \o pm.pattern.pattern>>
             ELSE IF Get(product, "variants", <<>>) = NoneList
             THEN Raise("AttributeError")
             ELSE IF bm.found
             THEN <<TRUE, BarcodePrefix \o bm.barcode>>
             ELSE IF truthy(handle) /\ url \in self.urls
             THEN <<TRUE, UrlPrefix \o url>>
             ELSE <<FALSE, NoneStr>>

\* ExclusionList.should_exclude: <<should_exclude, reason>>
should_exclude(self, product) ==
    IF is_none(product) \/ DOMAIN product = {} THEN <<FALSE, NoneStr>>
    ELSE LET title == Get(product, "title", <<>>)
             pm    == first_pattern_match(self.title_patterns, title)
             bm    == first_barcode_match(Get(product, "variants", <<>>),
                                          self.barcodes)
             handle == Get(product, "handle", <<>>)
             url    == ProductUrlBase \o handle
         IN  IF ~truthy(title) THEN <<FALSE, NoneStr>>
             ELSE IF title \in self.exact_titles
             THEN <<TRUE, ExactTitlePrefix \o title>>
             ELSE IF pm.found
             THEN <<TRUE, PartialTitlePrefix \o pm.pattern.pattern>>
             ELSE IF Get(product, "variants", <<>>) = NoneList
             THEN Raise("AttributeError")
             ELSE IF bm.found
             THEN <<TRUE, BarcodePrefix \o bm.barcode>>
             ELSE IF truthy(handle) /\ url \in self.urls
             THEN <<TRUE, UrlPrefix \o url>>
             ELSE <<FALSE, NoneStr>>

(***************************************************************************)
(* shared/validation.py: ProductValidator                                  *)
(***************************************************************************)
MsgNoImages ==
    <<"N", "o", " ", "p", "r", "o", "d", "u", "c", "t", " ", "i", "m", "a", "g", "e",
      "s", " ", "f", "o", "u", "n", "d">>
MsgFound == <<"F", "o", "u", "n", "d", " ">>
MsgImagesMinimum ==
    <<" ", "i", "m", "a", "g", "e", "s", ",", " ", "m", "i", "n", "i", "m", "u", "m",
      " ">>
MsgRequired == <<" ", "r", "e", "q", "u", "i", "r", "e", "d">>
MsgMissingDescription ==
    <<"M", "i", "s", "s", "i", "n", "g", " ", "p", "r", "o", "d", "u", "c", "t", " ",
      "d", "e", "s", "c", "r", "i", "p", "t", "i", "o", "n">>
MsgDescriptionLength ==
    <<"D", "e", "s", "c", "r", "i", "p", "t", "i", "o", "n", " ", "l", "e", "n", "g",
      "t", "h", " ", "(">>
MsgBelowMinimum ==
    <<")", " ", "b", "e", "l", "o", "w", " ", "m", "i", "n", "i", "m", "u", "m", " ",
      "(">>
MsgCloseParen == <<")">>
MsgNoPrice ==
    <<"N", "o", " ", "p", "r", "i", "c", "e", " ", "i", "n", "f", "o", "r", "m", "a",
      "t", "i", "o", "n", " ", "f", "o", "u", "n", "d">>
MsgPrice == <<"P", "r", "i", "c", "e", " ", "(">>
MsgNoCollection ==
    <<"P", "r", "o", "d", "u", "c", "t", " ", "n", "o", "t", " ", "a", "s", "s", "i",
      "g", "n", "e", "d", " ", "t", "o", " ", "a", "n", "y", " ", "c", "o", "l", "l",
      "e", "c", "t", "i", "o", "n">>
MsgNoTags ==
    <<"P", "r", "o", "d", "u", "c", "t", " ", "h", "a", "s", " ", "n", "o", " ", "t",
      "a", "g", "s", " ", "a", "s", "s", "i", "g", "n", "e", "d">>
MsgOneTag ==
    <<"P", "r", "o", "d", "u", "c", "t", " ", "h", "a", "s", " ", "o", "n", "l", "y",
      " ", "o", "n", "e", " ", "t", "a", "g">>
MsgTwoTags ==
    <<"P", "r", "o", "d", "u", "c", "t", " ", "h", "a", "s", " ", "o", "n", "l", "y",
      " ", "t", "w", "o", " ", "t", "a", "g", "s">>
MsgAuthorMissing ==
    <<"A", "u", "t", "h", "o", "r", " ", "m", "i", "s", "s", "i", "n", "g">>
MsgLanguageMissing ==
    <<"L", "a", "n", "g", "u", "a", "g", "e", " ", "m", "i", "s", "s", "i", "n", "g">>
MsgBindingMissing ==
    <<"B", "i", "n", "d", "i", "n", "g", " ", "m", "i", "s", "s", "i", "n", "g">>
MsgPubDateMissing ==
    <<"P", "u", "b", "l", "i", "c", "a", "t", "i", "o", "n", " ", "d", "a", "t", "e",
      " ", "m", "i", "s", "s", "i", "n", "g">>
FieldAuthor == <<"c", "u", "s", "t", "o", "m", ".", "a", "u", "t", "h", "o", "r">>
FieldLanguage ==
    <<"c", "u", "s", "t", "o", "m", ".", "l", "a", "n", "g", "u", "a", "g", "e">>
FieldBinding == <<"c", "u", "s", "t", "o", "m", ".", "b", "i", "n", "d", "i", "n", "g">>
FieldPubDate ==
    <<"c", "u", "s", "t", "o", "m", ".", "p", "u", "b", "_", "d", "a", "t", "e">>
MsgNoVariants ==
    <<"P", "r", "o", "d", "u", "c", "t", " ", "h", "a", "s", " ", "n", "o", " ", "v",
      "a", "r", "i", "a", "n", "t", "s">>
MsgMissingBarcode ==
    <<"V", "a", "r", "i", "a", "n", "t", " ", "m", "i", "s", "s", "i", "n", "g", " ",
      "b", "a", "r", "c", "o", "d", "e", "/", "I", "S", "B", "N">>
MsgMissingSku ==
    <<"V", "a", "r", "i", "a", "n", "t", " ", "m", "i", "s", "s", "i", "n", "g", " ",
      "S", "K", "U">>
MsgNotManual ==
    <<"V", "a", "r", "i", "a", "n", "t", " ", "n", "o", "t", " ", "s", "e", "t", " ",
      "f", "o", "r", " ", "m", "a", "n", "u", "a", "l", " ", "f", "u", "l", "f", "i",
      "l", "l", "m", "e", "n", "t">>
MsgNotOnline ==
    <<"L", "o", "c", "a", "t", "i", "o", "n", " ", "n", "o", "t", " ", "s", "e", "t",
      " ", "t", "o", " ", "f", "u", "l", "f", "i", "l", "l", " ", "o", "n", "l", "i",
      "n", "e", " ", "o", "r", "d", "e", "r", "s">>
MsgNotShipping ==
    <<"L", "o", "c", "a", "t", "i", "o", "n", " ", "n", "o", "t", " ", "s", "e", "t",
      " ", "t", "o", " ", "s", "h", "i", "p", " ", "i", "n", "v", "e", "n", "t", "o",
      "r", "y">>
MsgNotTaxable ==
    <<"V", "a", "r", "i", "a", "n", "t", " ", "n", "o", "t", " ", "s", "e", "t", " ",
      "a", "s", " ", "t", "a", "x", "a", "b", "l", "e">>
MsgFirstImageMissingAlt ==
    <<"F", "i", "r", "s", "t", " ", "i", "m", "a", "g", "e", " ", "m", "i", "s", "s",
      "i", "n", "g", " ", "a", "l", "t", " ", "t", "e", "x", "t">>
MsgImage == <<"I", "m", "a", "g", "e", " ">>
MsgMissingAltText ==
    <<" ", "m", "i", "s", "s", "i", "n", "g", " ", "a", "l", "t", " ", "t", "e", "x",
      "t">>
MsgFirstImageIncorrectAlt ==
    <<"F", "i", "r", "s", "t", " ", "i", "m", "a", "g", "e", " ", "h", "a", "s", " ",
      "i", "n", "c", "o", "r", "r", "e", "c", "t", " ", "a", "l", "t", " ", "t", "e",
      "x", "t">>
MsgHasIncorrectAltText ==
    <<" ", "h", "a", "s", " ", "i", "n", "c", "o", "r", "r", "e", "c", "t", " ", "a",
      "l", "t", " ", "t", "e", "x", "t">>
BookCoverPrefix == <<"B", "o", "o", "k", " ", "C", "o", "v", "e", "r", ":", " ">>
PresentationImage ==
    <<"p", "r", "e", "s", "e", "n", "t", "a", "t", "i", "o", "n", " ", "i", "m", "a",
      "g", "e">>
MinPriceText == <<"0", ".", "0", "1">>

\* str(x) inside an f-string: None prints as the text None
fmt(s) == IF s = NoneStr THEN <<"N", "o", "n", "e">> ELSE s

\* ValidationConfig as generate_validation_report constructs it; min_price is
\* the float 0.01, kept as its text
ValidationConfig ==
    [min_images |-> 1, min_description_length |-> 100, min_price |-> MinPriceText]

\* ProductValidator(config)
ProductValidator(config) == [config |-> config]

\* ValidationIssue(severity, message): details is None
Issue(severity, message) == [severity |-> severity, message |-> message]

\* ValidationIssue(severity, message, details)
IssueD(severity, message, details) ==
    [severity |-> severity, message |-> message, details |-> details]

\* float(text) of a decimal amount, in thousandths
float_millis(s) ==
    LET dot  == IF \E i \in 1..Len(s) : s[i] = "."
                THEN CHOOSE i \in 1..Len(s) : s[i] = "." ELSE Len(s) + 1
        whole == SubSeq(s, 1, dot - 1)
        frac  == SubSeq(s, dot + 1, Len(s))
        frac3 == SubSeq(frac \o <<"0", "0", "0">>, 1, 3)
    IN  1000 * int_str(whole) + int_str(frac3)

\* validate_images that also warns of the count when there is no image
validate_images_warns_of_zero(self, product) ==
    LET images == Get(product, "images", <<>>)
    IN  IF images = NoneList THEN Raise("AttributeError")
        ELSE (IF images = <<>> THEN << Issue("error", MsgNoImages) >> ELSE <<>>)
             \o (IF Len(images) < self.config.min_images
                 THEN << Issue("warning",
                               MsgFound \o str_int(Len(images)) \o MsgImagesMinimum
                               \o str_int(self.config.min_images) \o MsgRequired) >>
                 ELSE <<>>)

\* ProductValidator.validate_images
validate_images(self, product) ==
    LET images == Get(product, "images", <<>>)
    IN  IF images = NoneList THEN Raise("AttributeError")
        ELSE IF images = <<>> THEN << Issue("error", MsgNoImages) >>
        ELSE IF Len(images) < self.config.min_images
        THEN << Issue("warning",
                      MsgFound \o str_int(Len(images)) \o MsgImagesMinimum
                      \o str_int(self.config.min_images) \o MsgRequired) >>
        ELSE <<>>

\* ProductValidator.validate_description
validate_description(self, product) ==
    LET description == Get(product, "descriptionHtml", <<>>)
    IN  IF ~truthy(description) THEN << Issue("error", MsgMissingDescription) >>
        ELSE IF Len(description) < self.config.min_description_length
        THEN << Issue("warning",
                      MsgDescriptionLength \o str_int(Len(description))
                      \o MsgBelowMinimum
                      \o str_int(self.config.min_description_length)
                      \o MsgCloseParen) >>
        ELSE <<>>

\* ProductValidator.validate_pricing
validate_pricing(self, product) ==
    LET price_range == Get(product, "priceRangeV2", <<>>)
        min_variant == Get(price_range, "minVariantPrice", <<>>)
        min_price   == Get(min_variant, "amount", NoneStr)
    IN  IF is_none(price_range) \/ is_none(min_variant) THEN Raise("AttributeError")
        ELSE IF ~truthy(min_price) THEN << Issue("error", MsgNoPrice) >>
        ELSE IF float_millis(min_price) < float_millis(self.config.min_price)
        THEN << Issue("error",
                      MsgPrice \o min_price \o MsgBelowMinimum
                      \o self.config.min_price \o MsgCloseParen) >>
        ELSE <<>>

\* ProductValidator.validate_collections
validate_collections(self, product) ==
    LET collections == Get(product, "collections", <<>>)
    IN  IF collections = NoneList THEN Raise("AttributeError")
        ELSE IF collections = <<>> THEN << Issue("error", MsgNoCollection) >>
        ELSE <<>>

\* validate_tags that passes a record of two tags
validate_tags_two_is_enough(self, product) ==
    LET tags == Get(product, "tags", <<>>)
    IN  IF tags = <<>> THEN << Issue("error", MsgNoTags) >>
        ELSE IF Len(tags) = 1
        THEN << IssueD("warning", MsgOneTag, [current_tag |-> tags[1]]) >>
        ELSE <<>>

\* ProductValidator.validate_tags
validate_tags(self, product) ==
    LET tags == Get(product, "tags", <<>>)
    IN  IF tags = <<>> THEN << Issue("error", MsgNoTags) >>
        ELSE IF Len(tags) = 1
        THEN << IssueD("warning", MsgOneTag, [current_tag |-> tags[1]]) >>
        ELSE IF Len(tags) = 2
        THEN << IssueD("warning", MsgTwoTags, [current_tags |-> tags]) >>
        ELSE <<>>

\* validate_metafields: required_fields, in dict order
required_fields ==
    << [field |-> FieldAuthor,   error_msg |-> MsgAuthorMissing],
       [field |-> FieldLanguage, error_msg |-> MsgLanguageMissing],
       [field |-> FieldBinding,  error_msg |-> MsgBindingMissing],
       [field |-> FieldPubDate,  error_msg |-> MsgPubDateMissing] >>

\* The dict comprehension of validate_metafields, read at one key: the value
\* of the last node whose "namespace.key" is the key, [found |-> FALSE] when
\* no node has it.
RECURSIVE metafield_lookup(_, _)
metafield_lookup(nodes, field) ==
    IF nodes = <<>> THEN [found |-> FALSE]
    ELSE LET last == nodes[Len(nodes)]
         IN  IF fmt(last.namespace) \o <<".">> \o fmt(last.key) = field
             THEN [found |-> TRUE, value |-> last.value]
             ELSE metafield_lookup(SubSeq(nodes, 1, Len(nodes) - 1), field)

RECURSIVE metafield_issues_absent_only(_, _)
\* metafield_issues that passes a required metafield with an empty value
metafield_issues_absent_only(nodes, fields) ==
    IF fields = <<>> THEN <<>>
    ELSE LET f == Head(fields)
             m == metafield_lookup(nodes, f.field)
         IN  (IF ~m.found
              THEN << IssueD("error", f.error_msg, [field |-> f.field]) >>
              ELSE <<>>)
             \o metafield_issues_absent_only(nodes, Tail(fields))

RECURSIVE metafield_issues(_, _)
metafield_issues(nodes, fields) ==
    IF fields = <<>> THEN <<>>
    ELSE LET f == Head(fields)
             m == metafield_lookup(nodes, f.field)
         IN  (IF ~m.found \/ ~truthy(m.value)
              THEN << IssueD("error", f.error_msg, [field |-> f.field]) >>
              ELSE <<>>)
             \o metafield_issues(nodes, Tail(fields))

\* ProductValidator.validate_metafields
validate_metafields(self, product) ==
    LET nodes == Get(product, "metafields", <<>>)
    IN  IF nodes = NoneList THEN Raise("AttributeError")
        ELSE IF \E i \in 1..Len(nodes) :
                   ~({"namespace", "key", "value"} \subseteq DOMAIN nodes[i])
        THEN Raise("KeyError")
        ELSE metafield_issues(nodes, required_fields)

RECURSIVE barcode_issues(_)
barcode_issues(variants) ==
    IF variants = <<>> THEN <<>>
    ELSE (IF ~truthy(Get(Head(variants), "barcode", NoneStr))
          THEN << IssueD("error", MsgMissingBarcode,
                         [variant_id |-> Get(Head(variants), "id", "None")]) >>
          ELSE <<>>)
         \o barcode_issues(Tail(variants))

\* ProductValidator.validate_barcode
validate_barcode(self, product) ==
    LET variants == Get(product, "variants", <<>>)
    IN  IF variants = NoneList THEN Raise("AttributeError")
        ELSE IF variants = <<>> THEN << Issue("error", MsgNoVariants) >>
        ELSE barcode_issues(variants)

RECURSIVE sku_issues(_)
\* sku_issues that reports the first variant without a SKU only
sku_issues_first_only(variants) ==
    IF variants = <<>> THEN <<>>
    ELSE IF ~truthy(Get(Head(variants), "sku", NoneStr))
    THEN << IssueD("error", MsgMissingSku,
                   [variant_id |-> Get(Head(variants), "id", "None")]) >>
    ELSE sku_issues(Tail(variants))

sku_issues(variants) ==
    IF variants = <<>> THEN <<>>
    ELSE (IF ~truthy(Get(Head(variants), "sku", NoneStr))
          THEN << IssueD("error", MsgMissingSku,
                         [variant_id |-> Get(Head(variants), "id", "None")]) >>
          ELSE <<>>)
         \o sku_issues(Tail(variants))

\* ProductValidator.validate_sku
validate_sku(self, product) ==
    LET variants == Get(product, "variants", <<>>)
    IN  IF variants = NoneList THEN Raise("AttributeError")
        ELSE IF variants = <<>> THEN << Issue("error", MsgNoVariants) >>
        ELSE sku_issues(variants)

\* variant_settings_issues that stops at the first setting of the location
\* that fails
variant_settings_issues_first_only(node) ==
    LET variant_id       == Get(node, "id", "None")
        inventory_item   == Get(node, "inventoryItem", <<>>)
        inventory_levels == Get(inventory_item, "inventoryLevels", <<>>)
        location         == inventory_levels[1].location
        details          == [variant_id |-> variant_id,
                             location   |-> Get(location, "name", "None")]
    IN  IF is_none(inventory_item) \/ inventory_levels = NoneList
        THEN Raise("AttributeError")
        ELSE IF inventory_levels # <<>> /\ "location" \notin DOMAIN inventory_levels[1]
        THEN Raise("KeyError")
        ELSE IF inventory_levels # <<>> /\ is_none(location)
        THEN Raise("AttributeError")
        ELSE (IF inventory_levels = <<>> THEN <<>>
              ELSE IF Get(location, "isFulfillmentService", FALSE)
              THEN << IssueD("error", MsgNotManual, details) >>
              ELSE IF ~Get(location, "fulfillsOnlineOrders", FALSE)
              THEN << IssueD("error", MsgNotOnline, details) >>
              ELSE IF ~Get(location, "shipsInventory", FALSE)
              THEN << IssueD("error", MsgNotShipping, details) >>
              ELSE <<>>)
             \o (IF ~Get(node, "taxable", FALSE)
                 THEN << IssueD("error", MsgNotTaxable, [variant_id |-> variant_id]) >>
                 ELSE <<>>)

\* The body of validate_variant_settings' loop for one variant node
variant_settings_issues(node) ==
    LET variant_id       == Get(node, "id", "None")
        inventory_item   == Get(node, "inventoryItem", <<>>)
        inventory_levels == Get(inventory_item, "inventoryLevels", <<>>)
        location         == inventory_levels[1].location
        details          == [variant_id |-> variant_id,
                             location   |-> Get(location, "name", "None")]
    IN  IF is_none(inventory_item) \/ inventory_levels = NoneList
        THEN Raise("AttributeError")
        ELSE IF inventory_levels # <<>> /\ "location" \notin DOMAIN inventory_levels[1]
        THEN Raise("KeyError")
        ELSE IF inventory_levels # <<>> /\ is_none(location)
        THEN Raise("AttributeError")
        ELSE (IF inventory_levels # <<>>
              THEN (IF Get(location, "isFulfillmentService", FALSE)
                    THEN << IssueD("error", MsgNotManual, details) >> ELSE <<>>)
                   \o (IF ~Get(location, "fulfillsOnlineOrders", FALSE)
                       THEN << IssueD("error", MsgNotOnline, details) >> ELSE <<>>)
                   \o (IF ~Get(location, "shipsInventory", FALSE)
                       THEN << IssueD("error", MsgNotShipping, details) >> ELSE <<>>)
              ELSE <<>>)
             \o (IF ~Get(node, "taxable", FALSE)
                 THEN << IssueD("error", MsgNotTaxable, [variant_id |-> variant_id]) >>
                 ELSE <<>>)

RECURSIVE variant_settings_loop(_)
variant_settings_loop(variants) ==
    IF variants = <<>> THEN <<>>
    ELSE extend(variant_settings_issues(Head(variants)),
                variant_settings_loop(Tail(variants)))

\* ProductValidator.validate_variant_settings
validate_variant_settings(self, product) ==
    LET variants == Get(product, "variants", <<>>)
    IN  IF variants = NoneList THEN Raise("AttributeError")
        ELSE variant_settings_loop(variants)

\* expected_cover in lower case
expected_cover_lower(product) == lower(BookCoverPrefix \o fmt(product.title))

\* The text validate_image_alt_text expects of the first image
expected_cover(product) == BookCoverPrefix \o fmt(product.title)

\* The body of validate_image_alt_text's loop for the image at position idx
image_alt_issues(product, node, idx) ==
    LET alt_text == Get(node, "altText", <<>>)
        image_id == Get(node, "id", "None")
    IN  IF idx = 1 /\ "title" \notin DOMAIN product THEN Raise("KeyError")
        ELSE IF ~truthy(alt_text)
        THEN IF idx = 1
             THEN << IssueD("error", MsgFirstImageMissingAlt,
                            [image_id |-> image_id,
                             expected |-> expected_cover(product)]) >>
             ELSE << IssueD("error", MsgImage \o str_int(idx) \o MsgMissingAltText,
                            [image_id |-> image_id,
                             expected |-> PresentationImage]) >>
        ELSE IF idx = 1 /\ alt_text # expected_cover(product)
        THEN << IssueD("error", MsgFirstImageIncorrectAlt,
                       [image_id |-> image_id, current |-> alt_text,
                        expected |-> expected_cover(product)]) >>
        ELSE IF idx > 1 /\ lower(alt_text) # PresentationImage
        THEN << IssueD("error", MsgImage \o str_int(idx) \o MsgHasIncorrectAltText,
                       [image_id |-> image_id, current |-> alt_text,
                        expected |-> PresentationImage]) >>
        ELSE <<>>

RECURSIVE image_alt_loop(_, _, _)
image_alt_loop(product, images, idx) ==
    IF idx > Len(images) THEN <<>>
    ELSE extend(image_alt_issues(product, images[idx], idx),
                image_alt_loop(product, images, idx + 1))

\* ProductValidator.validate_image_alt_text
validate_image_alt_text(self, product) ==
    LET images == Get(product, "images", <<>>)
    IN  IF images = NoneList THEN Raise("AttributeError")
        ELSE image_alt_loop(product, images, 1)

\* validate_publication that takes a record without a status for published
validate_publication_default_active(self, product) ==
    Get(product, "status", "ACTIVE") = "ACTIVE"

\* ProductValidator.validate_publication
validate_publication(self, product) == Get(product, "status", "None") = "ACTIVE"

\* validation_methods with the tag check ahead of the others
validation_methods_tags_first ==
    << "validate_tags", "validate_images", "validate_description", "validate_pricing",
       "validate_collections", "validate_metafields",
       "validate_barcode", "validate_sku", "validate_variant_settings",
       "validate_image_alt_text" >>

\* validation_methods of validate_product, in its order
validation_methods ==
    << "validate_images", "validate_description", "validate_pricing",
       "validate_collections", "validate_tags", "validate_metafields",
       "validate_barcode", "validate_sku", "validate_variant_settings",
       "validate_image_alt_text" >>

\* validate(product) for a method of the list
apply_check(self, product, method) ==
    CASE method = "validate_images"           -> validate_images(self, product)
      [] method = "validate_description"      -> validate_description(self, product)
      [] method = "validate_pricing"          -> validate_pricing(self, product)
      [] method = "validate_collections"      -> validate_collections(self, product)
      [] method = "validate_tags"             -> validate_tags(self, product)
      [] method = "validate_metafields"       -> validate_metafields(self, product)
      [] method = "validate_barcode"          -> validate_barcode(self, product)
      [] method = "validate_sku"              -> validate_sku(self, product)
      [] method = "validate_variant_settings" -> validate_variant_settings(self, product)
      [] method = "validate_image_alt_text"   -> validate_image_alt_text(self, product)

RECURSIVE run_checks(_, _, _)
\* The loop of validate_product over the first k methods:
\* issues.extend(validate(product)) for each, an exception ending the loop
run_checks(self, product, k) ==
    IF k = 0 THEN <<>>
    ELSE Let(run_checks(self, product, k - 1), LAMBDA issues :
             IF raised(issues) THEN issues
             ELSE extend(issues, apply_check(self, product, validation_methods[k])))

\* ProductValidator.validate_product
validate_product(self, product) ==
    IF ~validate_publication(self, product) THEN <<>>
    ELSE run_checks(self, product, Len(validation_methods))

(***************************************************************************)
(* shared/validation.py: TagValidator                                      *)
(***************************************************************************)
\* TagValidator.BINDING_TAGS, as <<code, name>> pairs
BINDING_TAGS ==
    << <<<<"P">>, <<"P", "a", "p", "e", "r", "b", "a", "c", "k">>>>,
       <<<<"C">>, <<"H", "a", "r", "d", "c", "o", "v", "e", "r">>>>,
       <<<<"F">>, <<"F", "l", "e", "x", "i", "b", "o", "u", "n", "d">>>>,
       <<<<"S">>, <<"S", "p", "i", "r", "a", "l", "b", "o", "u", "n", "d">>>> >>

\* TagValidator.LANGUAGE_TAGS, as <<code, name>> pairs
LANGUAGE_TAGS ==
    << <<<<"L", "n", "_", "A", "r">>, <<"A", "r", "a", "b", "i", "c">>>>,
       <<<<"L", "n", "_", "A", "a">>, <<"C", "a", "t", "a", "l", "a", "n">>>>,
       <<<<"L", "n", "_", "C", "h">>, <<"C", "h", "i", "n", "e", "s", "e">>>>,
       <<<<"L", "n", "_", "D", "a">>, <<"D", "a", "n", "i", "s", "h">>>>,
       <<<<"L", "n", "_", "D", "u">>, <<"D", "u", "t", "c", "h">>>>,
       <<<<"L", "n", "_", "E", "n">>, <<"E", "n", "g", "l", "i", "s", "h">>>>,
       <<<<"L", "n", "_", "F", "a">>, <<"F", "a", "r", "o", "e", "s", "e">>>>,
       <<<<"L", "n", "_", "F", "r">>, <<"F", "r", "e", "n", "c", "h">>>>,
       <<<<"L", "n", "_", "G", "e">>, <<"G", "e", "r", "m", "a", "n">>>>,
       <<<<"L", "n", "_", "K", "r">>, <<"K", "o", "r", "e", "a", "n">>>>,
       <<<<"L", "n", "_", "I", "t">>, <<"I", "t", "a", "l", "i", "a", "n">>>>,
       <<<<"L", "n", "_", "J", "a">>, <<"J", "a", "p", "a", "n", "e", "s", "e">>>>,
       <<<<"L", "n", "_", "P", "o">>, <<"P", "o", "r", "t", "u", "g", "u", "e", "s", "e">>>>,
       <<<<"L", "n", "_", "S", "p">>, <<"S", "p", "a", "n", "i", "s", "h">>>>,
       <<<<"L", "n", "_", "S", "w">>, <<"S", "w", "e", "d", "i", "s", "h">>>>,
       <<<<"L", "n", "_", "T", "a">>, <<"T", "a", "g", "a", "l", "o", "g">>>>,
       <<<<"L", "n", "_", "T", "h">>, <<"T", "h", "a", "i">>>> >>

\* dict.get(key) on a table of pairs: NoneStr when the key is not in it
table_get(table, key) ==
    IF \E i \in 1..Len(table) : table[i][1] = key
    THEN table[CHOOSE i \in 1..Len(table) : table[i][1] = key][2]
    ELSE NoneStr

\* TagValidator.is_binding_tag
is_binding_tag(tag) == table_get(BINDING_TAGS, tag)

\* TagValidator.get_language_name
get_language_name(tag) == table_get(LANGUAGE_TAGS, tag)

all_digits(s) == \A i \in 1..Len(s) : is_digit(s[i])

\* re.match(r'^(\d{1,2})-(\d{1,2})-(\d{4})$', tag): the three groups, or
\* [found |-> FALSE].  $ also matches just before a line break that ends
\* the text.
date_pattern_match(tag) ==
    LET core == IF tag # <<>> /\ tag[Len(tag)] = "\n"
                THEN SubSeq(tag, 1, Len(tag) - 1) ELSE tag
        fits(ml, dl) ==
            /\ Len(core) = ml + dl + 6
            /\ all_digits(SubSeq(core, 1, ml))
            /\ core[ml + 1] = "-"
            /\ all_digits(SubSeq(core, ml + 2, ml + dl + 1))
            /\ core[ml + dl + 2] = "-"
            /\ all_digits(SubSeq(core, ml + dl + 3, ml + dl + 6))
        lens == {p \in {1, 2} \X {1, 2} : fits(p[1], p[2])}
    IN  IF lens = {} THEN [found |-> FALSE]
        ELSE LET p == CHOOSE q \in lens : TRUE
             IN  [found |-> TRUE,
                  month |-> SubSeq(core, 1, p[1]),
                  day   |-> SubSeq(core, p[1] + 2, p[1] + p[2] + 1),
                  year  |-> SubSeq(core, p[1] + p[2] + 3, p[1] + p[2] + 6)]

is_leap(year) == (year % 4 = 0 /\ year % 100 # 0) \/ year % 400 = 0

days_in_month(year, month) ==
    IF month = 2 THEN (IF is_leap(year) THEN 29 ELSE 28)
    ELSE IF month \in {4, 6, 9, 11} THEN 30 ELSE 31

\* Whether datetime(year, month, day) is a date (it raises ValueError if not)
datetime_ok(year, month, day) ==
    /\ year >= 1 /\ year <= 9999
    /\ month >= 1 /\ month <= 12
    /\ day >= 1 /\ day <= days_in_month(year, month)

\* f"{n:02d}"
pad2(n) == IF n < 10 THEN <<"0">> \o str_int(n) ELSE str_int(n)

\* TagValidator.parse_date_tag: <<MM-DD-YYYY, YYYY-MM-DD>> or <<None, None>>
parse_date_tag(tag) ==
    Let(date_pattern_match(tag), LAMBDA m :
        IF m.found /\ datetime_ok(int_str(m.year), int_str(m.month), int_str(m.day))
        THEN << pad2(int_str(m.month)) \o <<"-">> \o pad2(int_str(m.day))
                \o <<"-">> \o m.year,
                m.year \o <<"-">> \o pad2(int_str(m.month)) \o <<"-">>
                \o pad2(int_str(m.day)) >>
        ELSE <<NoneStr, NoneStr>>)

(***************************************************************************)
(* shared/csv_mapper.py: ValidationMapper.  A Dict[str, CSVField] is the   *)
(* sequence of its entries in insertion order, each [column, value]        *)
(* (CSVField.column_name is always the key, CSVField.required always True).*)
(* map_product_data is indented in the source as if it followed the class; *)
(* it is modelled as the method its signature and its callers make it.     *)
(***************************************************************************)
ManualText == <<"m", "a", "n", "u", "a", "l">>
TrueText == <<"t", "r", "u", "e">>
KwDescription == <<"d", "e", "s", "c", "r", "i", "p", "t", "i", "o", "n">>
KwPrice == <<"p", "r", "i", "c", "e">>
KwTags == <<"t", "a", "g", "s">>
KwSKU == <<"S", "K", "U">>
KwBarcode == <<"b", "a", "r", "c", "o", "d", "e">>
KwFulfillment == <<"f", "u", "l", "f", "i", "l", "l", "m", "e", "n", "t">>
KwTaxable == <<"t", "a", "x", "a", "b", "l", "e">>
KwMetafield == <<"m", "e", "t", "a", "f", "i", "e", "l", "d">>
KwAuthor == <<"a", "u", "t", "h", "o", "r">>
KwLanguage == <<"l", "a", "n", "g", "u", "a", "g", "e">>
KwBinding == <<"b", "i", "n", "d", "i", "n", "g">>
KwPubDate == <<"p", "u", "b", "_", "d", "a", "t", "e">>
Isbn978 == <<"9", "7", "8">>
Isbn979 == <<"9", "7", "9">>

ColAuthor   == "Author (product.metafields.custom.author)"

ColLanguage == "Language (product.metafields.custom.language)"

ColBinding  == "Binding (product.metafields.custom.binding)"

ColPubDate  == "Publication Date (product.metafields.custom.pub_date)"

\* CSVField(column_name, value)
CSVField(column_name, value) == [column |-> column_name, value |-> value]

\* d.update(other): the entries of d, each with the value other gives its
\* column if it gives one, then the entries of other under new columns
dict_update(d, other) ==
    Let(<<d, other>>, LAMBDA a :
        [i \in 1..Len(a[1]) |->
            IF \E j \in 1..Len(a[2]) : a[2][j].column = a[1][i].column
            THEN a[2][CHOOSE j \in 1..Len(a[2]) : a[2][j].column = a[1][i].column]
            ELSE a[1][i]]
        \o SelectSeq(a[2], LAMBDA e : \A i \in 1..Len(a[1]) : a[1][i].column # e.column))

\* d[key] = CSVField(key, value): replaces the entry in place, or appends it
dict_set(d, key, value) == dict_update(d, << CSVField(key, value) >>)

\* key in d
dict_has(d, key) == \E i \in 1..Len(d) : d[i].column = key

\* d.get(key): the entry, [found |-> FALSE] for None
dict_get(d, key) ==
    IF dict_has(d, key)
    THEN [found |-> TRUE, value |-> d[CHOOSE i \in 1..Len(d) : d[i].column = key].value]
    ELSE [found |-> FALSE]

\* ValidationMapper(): the instance after __init__ (standard_columns and
\* validation_map are read by no method modelled here)
ValidationMapper == [standard_columns |-> {"Handle", "Title"}]

\* The if/elif chain of map_validation_issues for one issue: the entry it
\* sets, as a one-entry dict, or the empty dict
issue_fields(issue) ==
    LET message == issue.message
        details == Get(issue, "details", <<>>)
        field   == Get(details, "field", <<>>)
    IN  IF contains(lower(message), KwDescription)
        THEN << CSVField("Body (HTML)", <<>>) >>
        ELSE IF contains(lower(message), KwPrice)
        THEN << CSVField("Variant Price", <<>>) >>
        ELSE IF contains(lower(message), KwTags)
        THEN << CSVField("Tags", <<>>) >>
        ELSE IF contains(message, KwSKU)
        THEN << CSVField("Variant SKU", <<>>) >>
        ELSE IF contains(lower(message), KwBarcode)
        THEN << CSVField("Variant Barcode", <<>>) >>
        ELSE IF contains(lower(message), KwFulfillment)
        THEN << CSVField("Variant Fulfillment Service", ManualText) >>
        ELSE IF contains(lower(message), KwTaxable)
        THEN << CSVField("Variant Taxable", TrueText) >>
        ELSE IF contains(lower(message), KwMetafield)
        THEN IF contains(field, KwAuthor) THEN << CSVField(ColAuthor, <<>>) >>
             ELSE IF contains(field, KwLanguage) THEN << CSVField(ColLanguage, <<>>) >>
             ELSE IF contains(field, KwBinding) THEN << CSVField(ColBinding, <<>>) >>
             ELSE IF contains(field, KwPubDate) THEN << CSVField(ColPubDate, <<>>) >>
             ELSE <<>>
        ELSE <<>>

RECURSIVE map_issues_loop(_, _)
map_issues_loop(csv_fields, issues) ==
    IF issues = <<>> THEN csv_fields
    ELSE map_issues_loop(dict_update(csv_fields, issue_fields(Head(issues))),
                         Tail(issues))

\* ValidationMapper.map_validation_issues
map_validation_issues(self, product, issues) ==
    map_issues_loop(<< CSVField("Handle", Get(product, "handle", <<>>)),
                       CSVField("Title", Get(product, "title", <<>>)) >>,
                    issues)

\* The alt text with the cover prefix in lower case
mapped_alt_text_lower(product, idx) ==
    IF idx = 1 THEN lower(BookCoverPrefix) \o fmt(Get(product, "title", <<>>))
    ELSE PresentationImage

\* The alt text map_image_issues sets for the image at position idx
mapped_alt_text(product, idx) ==
    IF idx = 1 THEN BookCoverPrefix \o fmt(Get(product, "title", <<>>))
    ELSE PresentationImage

\* ValidationMapper.map_image_issues: one row per image, in position order
map_image_issues(self, product, images) ==
    [idx \in 1..Len(images) |->
        << CSVField("Handle", Get(product, "handle", <<>>)),
           CSVField("Title", Get(product, "title", <<>>)),
           CSVField("Image Position", str_int(idx)),
           CSVField("Image Src", Get(images[idx], "originalSrc", <<>>)),
           CSVField("Image Alt Text", mapped_alt_text(product, idx)) >>]

\* x.strip() if x else ''
clean(x) == IF truthy(x) THEN strip(x) ELSE <<>>

\* clean_isbn that cuts a longer barcode down to 13 characters
clean_isbn_truncates(barcode) ==
    IF (startswith(barcode, Isbn978) \/ startswith(barcode, Isbn979))
       /\ Len(barcode) # 13
    THEN (IF Len(barcode) > 13 THEN SubSeq(barcode, 1, 13) ELSE <<>>)
    ELSE barcode

\* The barcode map_product_data writes: cleared when it starts with 978 or
\* 979 and is not 13 characters long
clean_isbn(barcode) ==
    IF (startswith(barcode, Isbn978) \/ startswith(barcode, Isbn979))
       /\ Len(barcode) # 13
    THEN <<>>
    ELSE barcode

\* process_tag that keeps a date tag as it is written
process_tag_keeps_date(acc, tag) ==
    Let(parse_date_tag(tag), LAMBDA date :
        IF truthy(date[1])
        THEN [acc EXCEPT !.transformed_tags = Append(@, tag),
                         !.metafields = dict_set(@, ColPubDate, date[2])]
        ELSE IF truthy(is_binding_tag(tag))
        THEN [acc EXCEPT !.transformed_tags = Append(@, tag),
                         !.metafields = dict_set(@, ColBinding, is_binding_tag(tag))]
        ELSE IF truthy(get_language_name(tag))
        THEN [acc EXCEPT !.transformed_tags = Append(@, tag),
                         !.languages = Append(@, get_language_name(tag))]
        ELSE [acc EXCEPT !.transformed_tags = Append(@, tag)])

\* One pass of the tag loop of map_product_data: the state acc =
\* [transformed_tags, metafields, languages] after the tag
process_tag(acc, tag) ==
    Let(parse_date_tag(tag), LAMBDA date :
        IF truthy(date[1])
        THEN [acc EXCEPT !.transformed_tags = Append(@, date[1]),
                         !.metafields = dict_set(@, ColPubDate, date[2])]
        ELSE IF truthy(is_binding_tag(tag))
        THEN [acc EXCEPT !.transformed_tags = Append(@, tag),
                         !.metafields = dict_set(@, ColBinding, is_binding_tag(tag))]
        ELSE IF truthy(get_language_name(tag))
        THEN [acc EXCEPT !.transformed_tags = Append(@, tag),
                         !.languages = Append(@, get_language_name(tag))]
        ELSE [acc EXCEPT !.transformed_tags = Append(@, tag)])

RECURSIVE process_tags(_, _, _)
\* The tag loop of map_product_data over the first k tags
process_tags(tags, k, acc) ==
    IF k = 0 THEN acc
    ELSE Let(process_tags(tags, k - 1, acc), LAMBDA before :
             process_tag(before, tags[k]))

\* language_array with each language once
language_array_once(languages) ==
    <<"[">>
    \o join(<<",", " ">>,
            [i \in 1..Len(SelectSeq([k \in 1..Len(languages) |-> k],
                                    LAMBDA k : \A j \in 1..(k - 1) :
                                                  languages[j] # languages[k])) |->
                <<"\"">>
                \o languages[SelectSeq([k \in 1..Len(languages) |-> k],
                                       LAMBDA k : \A j \in 1..(k - 1) :
                                                     languages[j] # languages[k])[i]]
                \o <<"\"">>])
    \o <<"]">>

\* f"[{', '.join(language_list)}]" with each language in double quotes
language_array(languages) ==
    <<"[">> \o join(<<",", " ">>,
                    [i \in 1..Len(languages) |-> <<"\"">> \o languages[i] \o <<"\"">>])
    \o <<"]">>

\* product_metafields that leaves the author out
product_metafields_without_author(acc, sku) ==
    IF acc.languages # <<>>
    THEN dict_set(acc.metafields, ColLanguage, language_array(acc.languages))
    ELSE acc.metafields

\* The metafields dict of map_product_data after the tag loop: the
\* languages as an array if any, the SKU as author if any
product_metafields(acc, sku) ==
    Let(IF acc.languages # <<>>
        THEN dict_set(acc.metafields, ColLanguage, language_array(acc.languages))
        ELSE acc.metafields,
        LAMBDA with_languages :
            IF sku # <<>> THEN dict_set(with_languages, ColAuthor, sku)
            ELSE with_languages)

\* ValidationMapper.map_product_data
map_product_data(self, product) ==
    Let([variant |-> IF Get(product, "variants", <<>>) # <<>>
                     THEN product.variants[1] ELSE <<>>,
         tags    |-> Get(product, "tags", <<>>)],
        LAMBDA p :
    Let([sku     |-> clean(Get(p.variant, "sku", NoneStr)),
         barcode |-> clean_isbn(clean(Get(p.variant, "barcode", NoneStr))),
         acc     |-> process_tags(p.tags, Len(p.tags),
                         [transformed_tags |-> <<>>, metafields |-> <<>>,
                          languages |-> <<>>])],
        LAMBDA v :
            dict_update(
                << CSVField("Handle", Get(product, "handle", <<>>)),
                   CSVField("Title", Get(product, "title", <<>>)),
                   CSVField("Body (HTML)", Get(product, "descriptionHtml", <<>>)),
                   CSVField("Tags", join(<<",", " ">>, v.acc.transformed_tags)),
                   CSVField("Variant SKU", v.sku),
                   CSVField("Variant Barcode", v.barcode),
                   CSVField("Variant Price", fmt(Get(p.variant, "price", <<>>))),
                   CSVField("Variant Fulfillment Service", ManualText) >>,
                product_metafields(v.acc, v.sku))))

\* get_column_order: base_columns
base_columns ==
    << "Handle", "Title", "Body (HTML)", "Tags", "Variant SKU", "Variant Barcode",
       "Variant Price", "Variant Fulfillment Service", "Image Position", "Image Src",
       "Image Alt Text", ColAuthor, ColLanguage, ColBinding, ColPubDate >>

\* The column names beyond the base list that the dicts of the model carry,
\* in the order sorted() gives strings: by code point, so upper case before
\* lower case
SortedNames == << "Published", "Variant Taxable", "Vendor", "variant x" >>

\* sorted(list(names)) for a set of those names
sorted(names) == SelectSeq(SortedNames, LAMBDA name : name \in names)

\* set(fields.keys())
keys(fields) == {fields[i].column : i \in 1..Len(fields)}

\* get_column_order that appends the added columns as the dict has them
get_column_order_unsorted(self, fields) ==
    IF fields # NoneList /\ fields # <<>>
    THEN base_columns
         \o [i \in 1..Len(SelectSeq(fields, LAMBDA f :
                              \A c \in 1..Len(base_columns) : base_columns[c] # f.column)) |->
                SelectSeq(fields, LAMBDA f :
                    \A c \in 1..Len(base_columns) : base_columns[c] # f.column)[i].column]
    ELSE base_columns

\* ValidationMapper.get_column_order(fields): the base list, and behind it
\* the other keys of a dict that is neither None nor empty, sorted
get_column_order(self, fields) ==
    IF fields # NoneList /\ fields # <<>>
    THEN base_columns
         \o sorted(keys(fields) \ {base_columns[c] : c \in 1..Len(base_columns)})
    ELSE base_columns

\* ValidationMapper.column_order: get_column_order() without fields
column_order(self) == get_column_order(self, NoneList)

(***************************************************************************)
(* shared/csv_generator.py                                                 *)
(***************************************************************************)
\* The rows generate_import_csv builds for one flagged product: for every
\* image row, the product data updated with the image row
product_rows(mapper, product) ==
    Let(map_image_issues(mapper, product, Get(product, "images", <<>>)),
        LAMBDA image_rows :
            [i \in 1..Len(image_rows) |->
                dict_update(map_product_data(mapper, product), image_rows[i])])

RECURSIVE import_rows(_, _, _)
\* The loop of generate_import_csv over the first k entries of
\* products_with_issues.items()
import_rows(mapper, entries, k) ==
    IF k = 0 THEN <<>>
    ELSE import_rows(mapper, entries, k - 1)
         \o Let(Get(entries[k].data, "product", <<>>),
                LAMBDA product : product_rows(mapper, product))

\* The line csv.DictWriter writes for one row: the value of every column of
\* mapper.column_order, '' for a column the row has not and for None
csv_line(mapper, row) ==
    [c \in 1..Len(column_order(mapper)) |->
        LET field == dict_get(row, column_order(mapper)[c])
        IN  IF field.found /\ field.value # NoneStr THEN field.value ELSE <<>>]

\* generate_import_csv: the file written, its header and its lines
generate_import_csv(products_with_issues) ==
    Let(import_rows(ValidationMapper, products_with_issues, Len(products_with_issues)),
        LAMBDA rows :
            [header |-> column_order(ValidationMapper),
             lines  |-> [i \in 1..Len(rows) |-> csv_line(ValidationMapper, rows[i])]])

(***************************************************************************)
(* reports/product_validation.py: generate_validation_report and main.     *)
(* issues_found is a dict: the sequence of its entries [key, data] in      *)
(* insertion order; an assignment to a key it has replaces the data in     *)
(* place.                                                                  *)
(***************************************************************************)
issues_has(d, key) == \E i \in 1..Len(d) : d[i].key = key

\* issues_found[key] = data
issues_set(d, key, data) ==
    IF issues_has(d, key)
    THEN [i \in 1..Len(d) |-> IF d[i].key = key THEN [key |-> key, data |-> data]
                                ELSE d[i]]
    ELSE Append(d, [key |-> key, data |-> data])

\* The keys of the dict
issues_keys(d) == {d[i].key : i \in 1..Len(d)}

\* The dict as Python compares it with ==: the set of its items
issues_items(d) == {d[i] : i \in 1..Len(d)}

\* The locals with the exclusion counter kept from the run before
report_locals_not_reset ==
    [issues_found |-> <<>>, published_count |-> 0, excluded_count |-> excluded_count,
     calls |-> <<>>]

\* The locals of generate_validation_report before its loop.  calls records,
\* in order, the calls the report makes on the exclusion list and on the
\* validator, each with the position of the record in the batch.
report_locals ==
    [issues_found |-> <<>>, published_count |-> 0, excluded_count |-> 0,
     calls |-> <<>>]

\* The body of the loop, which falls through to the validation of a record
\* it has counted as excluded (the continue is missing).
loop_body_no_continue(pv, el, st, product, pos) ==
    LET excl     == should_exclude(el, product)
        issues   == validate_product(pv, product)
        counted  == IF excl[1]
                    THEN [st EXCEPT !.excluded_count = @ + 1] ELSE st
        called   == [counted EXCEPT
                        !.calls = @ \o << <<"should_exclude", pos>>,
                                          <<"validate_product", pos>> >>,
                        !.published_count = @ + 1]
    IN  IF issues # <<>>
        THEN [called EXCEPT !.issues_found =
                 issues_set(@, product.id, [product |-> product, issues |-> issues])]
        ELSE called

\* The body of the loop of generate_validation_report for the record at
\* position pos of the batch: the locals after it
loop_body(pv, el, st, product, pos) ==
    LET excl   == should_exclude(el, product)
        issues == validate_product(pv, product)
    IN  IF excl[1]
        THEN [st EXCEPT !.excluded_count = @ + 1,
                        !.calls = Append(@, <<"should_exclude", pos>>)]
        ELSE LET called == [st EXCEPT
                               !.published_count = @ + 1,
                               !.calls = @ \o << <<"should_exclude", pos>>,
                                                 <<"validate_product", pos>> >>]
             IN  IF issues # <<>>
                 THEN [called EXCEPT !.issues_found =
                          issues_set(@, product.id,
                                     [product |-> product, issues |-> issues])]
                 ELSE called

\* The dict with the number of records fetched as total_products
report_result_total_fetched(st) ==
    [issues         |-> st.issues_found,
     total_products |-> st.published_count + st.excluded_count,
     issues_count   |-> Len(st.issues_found),
     excluded_count |-> st.excluded_count]

\* The dict generate_validation_report returns
report_result(st) ==
    [issues         |-> st.issues_found,
     total_products |-> st.published_count,
     issues_count   |-> Len(st.issues_found),
     excluded_count |-> st.excluded_count]


(***************************************************************************)
(* reports/product_validation.py: fetch_all_products.  server is the log   *)
(* of the page queries sent, each with its variables and what came back.   *)
(***************************************************************************)
PageSize == 250

\* What ShopifyAPI.run_query gives back for a page query: the data of a
\* page, with any nodes, hasNextPage and endCursor, data that lacks a key,
\* or an exception
run_query(query, variables) ==
    {[data |-> [products |-> [edges |-> [i \in 1..Len(nodes) |-> [node |-> nodes[i]]],
                              pageInfo |-> [hasNextPage |-> more, endCursor |-> cur]]]] :
        nodes \in {<<>>, <<"p1">>, <<"p2", "p3">>}, more \in BOOLEAN,
        cur \in {NoneStr, <<"c", "1">>, <<"c", "2">>}}
    \cup {[data |-> [products |-> [edges |-> << [node |-> "p1"] >>]]],
          [data |-> [shop |-> "kal"]]}
    \cup {[exception |-> "Exception"]}

\* The locals of fetch_all_products before its loop
fetch_locals ==
    [all_products |-> <<>>, page_size |-> PageSize, has_next_page |-> TRUE,
     cursor |-> NoneStr, total_fetched |-> 0]

\* variables = {"first": page_size, "after": cursor}
page_variables(st) == [first |-> st.page_size, after |-> st.cursor]

\* The try block of the loop for what the query gave back: the locals after
\* it and the exception it raised, if any.  The nodes are added to
\* all_products before pageInfo is read.
fetch_page(st, response) ==
    IF "exception" \in DOMAIN response
    THEN [locals |-> st, raised |-> response.exception]
    ELSE IF "products" \notin DOMAIN response.data
    THEN [locals |-> st, raised |-> "KeyError"]
    ELSE Let([st EXCEPT
                 !.all_products =
                     @ \o [i \in 1..Len(response.data.products.edges) |->
                              response.data.products.edges[i].node],
                 !.total_fetched =
                     Len(st.all_products) + Len(response.data.products.edges)],
             LAMBDA extended :
                 IF "pageInfo" \notin DOMAIN response.data.products
                 THEN [locals |-> extended, raised |-> "KeyError"]
                 ELSE [locals |-> [extended EXCEPT
                          !.has_next_page = response.data.products.pageInfo.hasNextPage,
                          !.cursor = response.data.products.pageInfo.endCursor],
                       raised |-> "no"])

\* The loop that ends at an exception and returns what it has, as
\* fetch_orders does
fetch_outcome_breaks(step) ==
    IF step.raised = "no" THEN [pc |-> "loop", locals |-> step.locals]
    ELSE [pc |-> "returned", ret |-> step.locals.all_products]

\* After the try block: the loop goes on, or the except clause logs the
\* exception and raises it again
fetch_outcome(step) ==
    IF step.raised = "no" THEN [pc |-> "loop", locals |-> step.locals]
    ELSE [pc |-> "raised", ret |-> Raise(step.raised)]

NotFetching == [pc |-> "idle"]

IdleFetch == server = <<>> /\ fetch = NotFetching

(***************************************************************************)
(* shared/shopify_utils.py: ShopifyAPI.run_query_with_retries.  retry      *)
(* holds the arguments, the locals and the log of what requests.post gave  *)
(* back for every request sent.                                            *)
(***************************************************************************)
DefaultDelay == 1

\* What requests.post gives back: an exception, a response with another
\* status than 200, or a response with status 200 whose body is not JSON,
\* or is JSON with 'data', with 'errors', with both or with neither
PostOutcomes ==
    {[exception |-> "ConnectionError"],
     [status_code |-> 500], [status_code |-> 429],
     [status_code |-> 200, text |-> "<html>"],
     [status_code |-> 200, json |-> [data |-> "d1"]],
     [status_code |-> 200, json |-> [data |-> "None"]],
     [status_code |-> 200, json |-> [errors |-> "e1"]],
     [status_code |-> 200, json |-> [data |-> "d1", errors |-> "e1"]],
     [status_code |-> 200, json |-> [extensions |-> "x1"]]}

\* attempt += 1; time.sleep(delay)
failed_attempt(st) == [st EXCEPT !.attempt = @ + 1, !.slept = @ + st.delay]

\* The loop body that returns whatever data a response with status 200
\* carries, 'errors' or not
retry_attempt_ignores_errors(st, outcome) ==
    IF "exception" \in DOMAIN outcome THEN failed_attempt(st)
    ELSE IF outcome.status_code # 200 THEN failed_attempt(st)
    ELSE IF "json" \notin DOMAIN outcome THEN failed_attempt(st)
    ELSE IF "data" \notin DOMAIN outcome.json THEN failed_attempt(st)
    ELSE [st EXCEPT !.pc = "returned", !.ret = outcome.json.data]

\* The body of the while loop for what requests.post gave back: the locals
\* after it.  The except clause catches what post, response.json() and
\* data['data'] raise.
retry_attempt(st, outcome) ==
    IF "exception" \in DOMAIN outcome THEN failed_attempt(st)
    ELSE IF outcome.status_code # 200 THEN failed_attempt(st)
    ELSE IF "json" \notin DOMAIN outcome THEN failed_attempt(st)
    ELSE IF "errors" \in DOMAIN outcome.json THEN failed_attempt(st)
    ELSE IF "data" \notin DOMAIN outcome.json THEN failed_attempt(st)
    ELSE [st EXCEPT !.pc = "returned", !.ret = outcome.json.data]

\* run_query_with_retries(query, variables, max_retries, delay) at its loop
retry_locals(max_retries, delay) ==
    [pc |-> "loop", max_retries |-> max_retries, delay |-> delay, attempt |-> 0,
     slept |-> 0, sent |-> <<>>, ret |-> <<>>]

NotRetrying == [pc |-> "idle"]

(***************************************************************************)
(* shared/shopify_rate_limiter.py: ShopifyRateLimiter.  clock is the time  *)
(* time.time() reads, in half seconds; limiter is the instance, wrapper    *)
(* the locals of one call of the wrapper and the log of its invocations of *)
(* the wrapped function.                                                   *)
(***************************************************************************)
KwExceeded == <<"E", "x", "c", "e", "e", "d", "e", "d">>
Kw429 == <<"4", "2", "9">>
MsgExceeded ==
    <<"E", "x", "c", "e", "e", "d", "e", "d", " ", "2", " ", "c", "a", "l", "l", "s">>
MsgTooMany == <<"H", "T", "T", "P", " ", "4", "2", "9">>
MsgLowerExceeded == <<"l", "i", "m", "i", "t", " ", "e", "x", "c", "e", "e", "d", "e", "d">>
MsgNotFound == <<"4", "0", "4", " ", "N", "o", "t", " ", "F", "o", "u", "n", "d">>
MsgMaxRetries ==
    <<"M", "a", "x", " ", "r", "e", "t", "r", "i", "e", "s", " ", "e", "x", "c", "e",
      "e", "d", "e", "d", " ", "f", "o", "r", " ", "A", "P", "I", " ", "c", "a", "l",
      "l">>

\* n seconds on the clock
seconds(n) == n + n

RECURSIVE pow2(_)
\* 2 ** n
pow2(n) == IF n = 0 THEN 1 ELSE 2 * pow2(n - 1)

\* What one invocation of the wrapped function does: it returns, or raises
\* an exception with a message
FuncOutcomes ==
    {[returned |-> "details"]}
    \cup {[exception |-> m] : m \in {MsgExceeded, MsgTooMany, MsgLowerExceeded, MsgNotFound}}

\* ShopifyRateLimiter(max_calls, per_seconds, max_retries): the instance
\* after __init__
ShopifyRateLimiter(max_calls, per_seconds, max_retries) ==
    [max_calls |-> max_calls, per_seconds |-> seconds(per_seconds),
     max_retries |-> max_retries, calls |-> <<>>]

\* [call for call in self.calls if current_time - call < self.per_seconds]
recent_calls(self, current_time) ==
    SelectSeq(self.calls, LAMBDA c : current_time - c < self.per_seconds)

\* 'Exceeded' in str(e) or '429' in str(e)
is_rate_limit_error(message) == contains(message, KwExceeded) \/ contains(message, Kw429)

\* The slot test that lets a call through when max_calls are recorded
has_slot_one_more(self, current_time) ==
    Len(recent_calls(self, current_time)) <= self.max_calls

\* len(self.calls) < self.max_calls, after the old calls are removed
has_slot(self, current_time) ==
    Len(recent_calls(self, current_time)) < self.max_calls

\* The locals of the wrapper at the start of its loop
wrapper_locals == [pc |-> "loop", attempt |-> 0, invoked |-> <<>>, waited |-> 0, ret |-> <<>>]

NotWrapping == [pc |-> "idle"]

NoLimiter == [max_calls |-> 0, per_seconds |-> 0, max_retries |-> 0, calls |-> <<>>]

IdleLimiter == limiter = NoLimiter /\ wrapper = NotWrapping /\ clock = 0

IdleIo == IdleFetch /\ retry = NotRetrying /\ IdleLimiter
(***************************************************************************)
(* Inputs: catalog records as fetch_all_products' query returns them.      *)
(***************************************************************************)
TitleBread == <<"B", "r", "e", "a", "d">>
TitleGiftCard == <<"G", "i", "f", "t", " ", "C", "a", "r", "d">>
TitleClassBread == <<"C", "l", "a", "s", "s", ":", " ", "B", "r", "e", "a", "d">>
TitleCookingClass ==
    <<"C", "o", "o", "k", "i", "n", "g", " ", "C", "l", "a", "s", "s", ":", " ", "B",
      "r", "e", "a", "d">>
TitleLowerClassGift ==
    <<"c", "l", "a", "s", "s", ":", " ", "G", "i", "f", "t", " ", "C", "a", "r", "d">>
HandleBread == <<"b", "r", "e", "a", "d">>
HandleGiftCard == <<"g", "i", "f", "t", "-", "c", "a", "r", "d">>
BarcodeIsbn == <<"9", "7", "8", "1", "2", "3", "4", "5", "6", "7", "8", "9", "7">>
BarcodeShort == <<"9", "7", "8", "1", "2", "3", "4", "5">>
SkuSmith == <<"S", "M", "I", "T", "H">>
DescShort == <<"<", "p", ">", "S", "h", "o", "r", "t", "<", "/", "p", ">">>
AmountGood == <<"1", "2", ".", "9", "9">>
AmountZero == <<"0", ".", "0", "0">>
TagPaperback == <<"P">>
TagEnglish == <<"L", "n", "_", "E", "n">>
TagDate == <<"1", "-", "5", "-", "2", "0", "2", "4">>
TagFrench == <<"L", "n", "_", "F", "r">>
TagSigned == <<"S", "i", "g", "n", "e", "d">>
TagDatePadded == <<"0", "1", "-", "0", "5", "-", "2", "0", "2", "4">>
TagDateImpossible == <<"0", "2", "-", "3", "0", "-", "2", "0", "2", "4">>
TagDateSlashes == <<"1", "/", "5", "/", "2", "0", "2", "4">>
KwOther == <<"o", "t", "h", "e", "r">>
Custom == <<"c", "u", "s", "t", "o", "m">>
ValueSmith == <<"S", "m", "i", "t", "h">>
SrcCover ==
    <<"h", "t", "t", "p", "s", ":", "/", "/", "c", "d", "n", "/", "c", "o", "v", "e",
      "r", ".", "j", "p", "g">>
AltWrong == <<"W", "r", "o", "n", "g">>
AltPresentationUpper ==
    <<"P", "r", "e", "s", "e", "n", "t", "a", "t", "i", "o", "n", " ", "I", "m", "a",
      "g", "e">>
AltCoverLowerBread ==
    <<"b", "o", "o", "k", " ", "c", "o", "v", "e", "r", ":", " ", "b", "r", "e", "a",
      "d">>
MsgMetafieldAuthorReworded ==
    <<"M", "i", "s", "s", "i", "n", "g", " ", "m", "e", "t", "a", "f", "i", "e", "l",
      "d", ":", " ", "a", "u", "t", "h", "o", "r">>
MsgAuthorReworded ==
    <<"T", "h", "e", " ", "a", "u", "t", "h", "o", "r", " ", "i", "s", " ", "n", "o",
      "t", " ", "s", "e", "t">>

DescLong == [i \in 1..120 |-> "d"]

Titles ==
    {TitleBread, TitleGiftCard, TitleKALGiftCard, TitleClassBread, TitleCookingClass,
     TitleLowerClassGift, <<>>}

Handles == {HandleBread, HandleGiftCard, <<>>}

Barcodes == {BarcodeIsbn, BarcodeShort, NoneStr}

Statuses == {"ACTIVE", "DRAFT", "ARCHIVED"}

\* The URL should_exclude builds for a handle
product_url(handle) == ProductUrlBase \o handle

\* A location node of an inventory level
Location(is_service, fulfills, ships) ==
    [id |-> "loc1", name |-> "Shop", isFulfillmentService |-> is_service,
     fulfillsOnlineOrders |-> fulfills, shipsInventory |-> ships, isActive |-> TRUE]

\* inventoryItem with no inventory level, and with one at a location
NoLevels == [id |-> "inv1", inventoryLevels |-> <<>>]

OneLevel(location) == [id |-> "inv1", inventoryLevels |-> << [location |-> location] >>]

InventoryItems ==
    {NoLevels, OneLevel(Location(FALSE, TRUE, TRUE)), OneLevel(Location(TRUE, FALSE, FALSE))}

\* A variant node
Variant(id, sku, barcode, taxable, inventory_item) ==
    [id |-> id, sku |-> sku, barcode |-> barcode, price |-> AmountGood,
     inventoryQuantity |-> 1, inventoryItem |-> inventory_item, taxable |-> taxable]

GoodVariant == Variant("v1", SkuSmith, BarcodeIsbn, TRUE, OneLevel(Location(FALSE, TRUE, TRUE)))

VariantNodes ==
    {Variant("v1", sku, barcode, taxable, item) :
        sku \in {SkuSmith, NoneStr}, barcode \in {BarcodeIsbn, NoneStr},
        taxable \in BOOLEAN, item \in InventoryItems}

\* An image node
Image(id, alt_text) == [id |-> id, altText |-> alt_text, originalSrc |-> SrcCover]

\* The alt texts an image of a record with the title may carry
AltTexts(title) ==
    {NoneStr, <<>>, BookCoverPrefix \o title, AltCoverLowerBread, PresentationImage,
     AltPresentationUpper, AltWrong}

\* All sequences over S of length at most n
SeqsUpTo(S, n) == UNION {[1..k -> S] : k \in 0..n}

Metafield(key, value) == [namespace |-> Custom, key |-> key, value |-> value]

AllMetafields ==
    << Metafield(KwAuthor, ValueSmith), Metafield(KwLanguage, ValueSmith),
       Metafield(KwBinding, ValueSmith), Metafield(KwPubDate, ValueSmith) >>

\* A record with every field the validator reads in order
GoodProduct(id, title) ==
    [id |-> id, title |-> title, handle |-> HandleBread, status |-> "ACTIVE",
     descriptionHtml |-> DescLong,
     images |-> << Image("img1", BookCoverPrefix \o title),
                   Image("img2", PresentationImage) >>,
     tags |-> <<TagPaperback, TagEnglish, TagDate>>,
     priceRangeV2 |-> [minVariantPrice |-> [amount |-> AmountGood]],
     collections |-> << [id |-> "c1", title |-> TitleBread] >>,
     metafields |-> AllMetafields,
     variants |-> <<GoodVariant>>]

\* A record that fails every check
BadProduct(id, title) ==
    [id |-> id, title |-> title, handle |-> HandleBread, status |-> "ACTIVE",
     descriptionHtml |-> <<>>,
     images |-> <<>>,
     tags |-> <<>>,
     priceRangeV2 |-> [minVariantPrice |-> [amount |-> AmountZero]],
     collections |-> <<>>,
     metafields |-> << Metafield(KwAuthor, <<>>) >>,
     variants |-> <<>>]

\* The record without the key
Without(p, key) == [k \in DOMAIN p \ {key} |-> p[k]]

\* The record without its status key
WithoutStatus(p) == [k \in DOMAIN p \ {"status"} |-> p[k]]

BaseProducts ==
    {GoodProduct("p1", TitleBread), BadProduct("p1", TitleBread),
     [GoodProduct("p1", TitleBread) EXCEPT !.descriptionHtml = DescShort,
                                            !.tags = <<TagPaperback>>],
     [BadProduct("p1", TitleBread) EXCEPT !.tags = <<TagPaperback, TagEnglish>>,
                                           !.priceRangeV2 = <<>>,
                                           !.metafields = <<>>]}

\* Records of every status, and with no status key
StatusProducts ==
    {[p EXCEPT !.status = s] : p \in BaseProducts, s \in Statuses}
    \cup {WithoutStatus(p) : p \in BaseProducts}

\* Records of every title, handle and first-variant barcode
ExclusionProducts ==
    {[p EXCEPT !.title = t, !.handle = h,
               !.variants = << Variant("v1", SkuSmith, b, TRUE, NoLevels) >>] :
        p \in {GoodProduct("p1", TitleBread)}, t \in Titles, h \in Handles,
        b \in Barcodes}

\* Records with up to MaxImages images of every alt text
ImageProducts ==
    {[GoodProduct("p1", t) EXCEPT !.images = [i \in 1..Len(alts) |->
                                                Image("img1", alts[i])]] :
        t \in {TitleBread}, alts \in SeqsUpTo(AltTexts(TitleBread), MaxImages)}
    \cup {[GoodProduct("p1", t) EXCEPT !.images = [i \in 1..Len(alts) |->
                                                Image("img1", alts[i])]] :
        t \in {<<>>, NoneStr}, alts \in SeqsUpTo({NoneStr, AltWrong}, MaxImages)}

\* The ids of the variants of a record, by position
VariantIds == <<"v1", "v2", "v3", "v4">>

\* Records with up to MaxVariants variants
VariantProducts ==
    {[GoodProduct("p1", TitleBread) EXCEPT
         !.variants = [i \in 1..Len(vs) |-> [vs[i] EXCEPT !.id = VariantIds[i]]]] :
        vs \in SeqsUpTo(VariantNodes, MaxVariants)}

\* Records of two variants, the first without one of its keys or with an
\* empty barcode or SKU
PartialVariantProducts ==
    {[GoodProduct("p1", TitleBread) EXCEPT !.variants = <<v, GoodVariant>>] :
        v \in {Without([GoodVariant EXCEPT !.id = "v2"], key) :
                  key \in {"barcode", "sku", "taxable"}}
              \cup {[GoodVariant EXCEPT !.id = "v2", !.barcode = <<>>],
                    [GoodVariant EXCEPT !.id = "v2", !.sku = <<>>],
                    [Without(GoodVariant, "id") EXCEPT !.sku = <<>>, !.taxable = FALSE]}}

\* The exclusion lists a run may be configured with: as shipped, and with a
\* barcode and a URL entered
ExclusionConfigs ==
    {ExclusionList(b, u) : b \in {{}, {BarcodeIsbn}},
                           u \in {{}, {product_url(HandleGiftCard)}}}

\* The sub-fields of a record the checks read
SubFields ==
    {"title", "descriptionHtml", "images", "tags", "priceRangeV2", "collections",
     "metafields", "variants"}

\* A record in order with one variant whose inventoryItem is the given one
WithInventoryItem(item) ==
    [GoodProduct("p1", TitleBread) EXCEPT
        !.variants = << [GoodVariant EXCEPT !.inventoryItem = item] >>]

\* Records of one variant at a location of every setting, and at a location
\* that names no setting
LocationProducts ==
    {WithInventoryItem(OneLevel(Location(is_service, fulfills, ships))) :
        is_service \in BOOLEAN, fulfills \in BOOLEAN, ships \in BOOLEAN}
    \cup {WithInventoryItem(OneLevel([id |-> "loc1"]))}

\* Published records in order but for one sub-field that is absent
AbsentFieldProducts ==
    {Without(GoodProduct("p1", TitleBread), key) : key \in SubFields}
    \cup {[GoodProduct("p1", TitleBread) EXCEPT !.priceRangeV2 = <<>>],
          [GoodProduct("p1", TitleBread) EXCEPT
              !.variants = << Without(GoodVariant, "inventoryItem") >>],
          WithInventoryItem([id |-> "inv1"]),
          WithInventoryItem([id |-> "inv1", inventoryLevels |-> << [id |-> "lvl1"] >>])}
    \cup {[GoodProduct("p1", TitleBread) EXCEPT
              !.metafields = << Without(Metafield(KwAuthor, ValueSmith), key) >>
                             \o Tail(AllMetafields)] : key \in {"namespace", "key", "value"}}

\* Published records in order but for one sub-field that is null
NullFieldProducts ==
    {[GoodProduct("p1", TitleBread) EXCEPT !.title = NoneStr],
     [GoodProduct("p1", TitleBread) EXCEPT !.descriptionHtml = NoneStr],
     [GoodProduct("p1", TitleBread) EXCEPT !.images = NoneList],
     [GoodProduct("p1", TitleBread) EXCEPT !.priceRangeV2 = NoneDict],
     [GoodProduct("p1", TitleBread) EXCEPT !.priceRangeV2 = [minVariantPrice |-> NoneDict]],
     [GoodProduct("p1", TitleBread) EXCEPT !.collections = NoneList],
     [GoodProduct("p1", TitleBread) EXCEPT !.metafields = NoneList],
     [GoodProduct("p1", TitleBread) EXCEPT !.variants = NoneList],
     WithInventoryItem(NoneDict),
     WithInventoryItem([id |-> "inv1", inventoryLevels |-> NoneList]),
     WithInventoryItem(OneLevel(NoneDict))}
    \cup {[GoodProduct("p1", TitleBread) EXCEPT
              !.metafields = << [Metafield(KwAuthor, ValueSmith) EXCEPT ![key] = NoneStr] >>
                             \o Tail(AllMetafields)] : key \in {"namespace", "key", "value"}}

\* What should_exclude may be handed in place of a titled record: None, the
\* empty record, and records with no title key, a null title and an empty
\* title, each with a barcode and a handle
UntitledProducts ==
    {NoneDict, <<>>}
    \cup {Without(p, "title") : p \in ExclusionProducts}
    \cup {[p EXCEPT !.title = NoneStr] : p \in ExclusionProducts}

\* Records with up to MaxTags tags
TagProducts ==
    {[GoodProduct("p1", TitleBread) EXCEPT !.tags = tags] :
        tags \in SeqsUpTo({TagPaperback, TagDate}, MaxTags)}
    \cup {Without(GoodProduct("p1", TitleBread), "tags")}

\* A metafield outside the four required ones, with an empty value
OtherMetafield == [namespace |-> Custom, key |-> KwOther, value |-> <<>>]

\* A metafield with a required key in another namespace
OtherNamespace == [namespace |-> KwOther, key |-> KwAuthor, value |-> ValueSmith]

\* The metafield nodes of a required key that is absent, empty, null or set
RequiredMetafield(key, state) ==
    CASE state = "absent" -> <<>>
      [] state = "empty"  -> << Metafield(key, <<>>) >>
      [] state = "null"   -> << Metafield(key, NoneStr) >>
      [] state = "set"    -> << Metafield(key, ValueSmith) >>

\* Records with each of the four required metafields absent, empty or set,
\* or the first null, and with two metafields outside the four
MetafieldProducts ==
    {[GoodProduct("p1", TitleBread) EXCEPT
         !.metafields = <<OtherMetafield>> \o RequiredMetafield(KwAuthor, a)
                        \o RequiredMetafield(KwLanguage, l) \o <<OtherNamespace>>
                        \o RequiredMetafield(KwBinding, b) \o RequiredMetafield(KwPubDate, d)] :
        a \in {"absent", "empty", "null", "set"}, l \in {"absent", "empty", "set"},
        b \in {"absent", "empty", "set"}, d \in {"absent", "empty", "set"}}

\* Records whose images lack the altText key or the id key
PartialImageProducts ==
    {[GoodProduct("p1", TitleBread) EXCEPT !.images = images] :
        images \in SeqsUpTo({Without(Image("img1", AltWrong), "altText"),
                             Without(Image("img1", AltWrong), "id")}, MaxImages)}

\* The tags parse_date_tag is put to: dates, dates that are none, and tags
\* of another shape
DateTags ==
    {m \o <<"-">> \o d \o <<"-">> \o y :
        m \in {<<"1">>, <<"0", "2">>, <<"1", "2">>, <<"1", "3">>, <<"0">>},
        d \in {<<"5">>, <<"2", "9">>, <<"3", "0">>, <<"3", "1">>, <<"0">>, <<"0", "0", "1">>},
        y \in {<<"2", "0", "2", "4">>, <<"2", "0", "2", "3">>, <<"1", "9", "0", "0">>,
               <<"2", "0", "0", "0">>, <<"0", "0", "0", "0">>, <<"2", "4">>}}
    \cup {TagDate \o <<"\n">>, <<"\n">> \o TagDate, TagDate \o <<" ">>, <<" ">> \o TagDate,
          TagDate \o <<"5">>, TagDateSlashes, TagPaperback, TagEnglish, <<>>}

\* Records with up to MaxTags tags of every kind: a binding tag, two language
\* tags, a date tag, a tag of no kind; and records with a date tag in its
\* canonical form, with a date that is none, and without the tags key
MapperTagProducts ==
    {[GoodProduct("p1", TitleBread) EXCEPT !.tags = tags] :
        tags \in SeqsUpTo({TagPaperback, TagEnglish, TagFrench, TagDate, TagSigned}, MaxTags)}
    \cup {[GoodProduct("p1", TitleBread) EXCEPT !.tags = <<TagSigned, TagDatePadded>>],
          [GoodProduct("p1", TitleBread) EXCEPT !.tags = <<TagDateImpossible, TagEnglish>>],
          Without(GoodProduct("p1", TitleBread), "tags")}

\* The barcodes and the SKUs of a first variant: none, empty, blank, with
\* blanks around, of 13 characters and of other lengths
MapperBarcodes ==
    {NoneStr, <<>>, <<" ">>, BarcodeIsbn, <<" ">> \o BarcodeIsbn \o <<" ", "\n">>,
     BarcodeShort, BarcodeIsbn \o <<"0">>, Isbn979 \o SubSeq(BarcodeIsbn, 4, 13),
     Isbn979, SubSeq(BarcodeIsbn, 4, 13), SubSeq(BarcodeIsbn, 4, 8) \o BarcodeIsbn}

MapperSkus == {NoneStr, <<>>, <<" ">>, SkuSmith, <<" ">> \o SkuSmith \o <<" ">>}

\* Records of every first-variant barcode and SKU, with a second variant,
\* with a first variant without the keys, and without a variant
MapperVariantProducts ==
    {[GoodProduct("p1", TitleBread) EXCEPT
         !.variants = << Variant("v1", sku, barcode, TRUE, NoLevels) >> \o rest] :
        sku \in MapperSkus, barcode \in MapperBarcodes, rest \in {<<>>}}
    \cup {[GoodProduct("p1", TitleBread) EXCEPT
              !.variants = << Variant("v1", NoneStr, BarcodeShort, TRUE, NoLevels),
                              GoodVariant >>],
          [GoodProduct("p1", TitleBread) EXCEPT
              !.variants = << [id |-> "v1"] >>],
          [GoodProduct("p1", TitleBread) EXCEPT !.variants = <<>>],
          Without(GoodProduct("p1", TitleBread), "variants")}

AllCalls == {"should_exclude", "validate_product", "map_validation_issues", "relabel"}

\* Titles for the title stages: the patterns in other letter case, behind
\* other text, and two in one title
TitleLowerKAL ==
    <<"k", "i", "t", "c", "h", "e", "n", " ", "a", "r", "t", "s", " ", "&", " ", "l",
      "e", "t", "t", "e", "r", "s", " ", "g", "i", "f", "t", " ", "c", "a", "r", "d">>
TitleUpperClass ==
    <<"C", "L", "A", "S", "S", ":", " ", "B", "R", "E", "A", "D">>
TitleBlankClass ==
    <<" ", "C", "l", "a", "s", "s", ":", " ", "B", "r", "e", "a", "d">>
TitleLineClass ==
    <<"B", "r", "e", "a", "d", "\n", "C", "l", "a", "s", "s", ":", " ", "B", "r",
      "e", "a", "d">>
TitleCleanOutGift ==
    <<"C", "l", "e", "a", "n", " ", "O", "u", "t", " ", "G", "i", "f", "t", " ", "C",
      "a", "r", "d">>
TitleOpClass ==
    <<"o", "p", ":", " ", "C", "l", "a", "s", "s", ":", " ", "B", "r", "e", "a", "d">>
TitleMixedEdition ==
    <<"B", "r", "e", "a", "d", ",", " ", "l", "I", "M", "I", "T", "E", "D", " ", "e",
      "D", "I", "T", "I", "O", "N">>
TitleClassOnly ==
    <<"C", "l", "a", "s", "s">>
TitleKALPlus ==
    <<"K", "i", "t", "c", "h", "e", "n", " ", "A", "r", "t", "s", " ", "&", " ", "L",
      "e", "t", "t", "e", "r", "s", " ", "G", "i", "f", "t", " ", "C", "a", "r", "d",
      " ">>
TitleKALNoCard ==
    <<"K", "i", "t", "c", "h", "e", "n", " ", "A", "r", "t", "s", " ", "&", " ", "L",
      "e", "t", "t", "e", "r", "s", " ", "G", "i", "f", "t">>

PatternTitles ==
    {TitleLowerKAL, TitleUpperClass, TitleBlankClass, TitleLineClass, TitleCleanOutGift,
     TitleOpClass, TitleMixedEdition, TitleClassOnly, TitleKALPlus, TitleKALNoCard}

\* Records of those titles and of the titles of the other records
PatternProducts ==
    {GoodProduct("p1", title) : title \in PatternTitles \cup (Titles \ {<<>>})}

\* The dicts get_column_order is called with: None, the empty dict, and
\* dicts of up to three keys, of the base list and beyond it, in every order
FieldDicts ==
    {NoneList}
    \cup {[i \in 1..Len(names) |-> CSVField(names[i], <<>>)] :
            names \in {l \in SeqsUpTo({"Handle", "Tags", "Variant Taxable", "Published",
                                       "variant x"}, 3) :
                          \A i, j \in 1..Len(l) : l[i] = l[j] => i = j}}

\* Flagged records for generate_import_csv: no tags, k images, and a first
\* variant that is or is not taxable
ImportProducts ==
    {[GoodProduct("p1", TitleBread) EXCEPT
         !.tags = <<>>, !.images = [i \in 1..k |-> Image("img1", NoneStr)],
         !.variants = << [GoodVariant EXCEPT !.taxable = taxable] >>] :
        k \in 0..MaxImages, taxable \in BOOLEAN}

\* configs/exclusions.py: load_exclusions
load_exclusions == ExclusionList({}, {})

\* The inputs of the single calls: an exclusion list, a record, and the
\* calls the record is put to
UnitInputs ==
    {[exclusions |-> e, product |-> p, calls |-> AllCalls] :
        e \in ExclusionConfigs, p \in ExclusionProducts}
    \cup {[exclusions |-> load_exclusions, product |-> p, calls |-> AllCalls] :
             p \in VariantProducts \cup PartialVariantProducts \cup LocationProducts}
    \cup {[exclusions |-> load_exclusions, product |-> p,
           calls |-> AllCalls \cup {"validate_images", "validate_tags",
                                    "validate_metafields"}] : p \in StatusProducts}
    \cup {[exclusions |-> load_exclusions, product |-> p,
           calls |-> AllCalls \cup {"validate_images", "validate_image_alt_text"}] :
             p \in ImageProducts}
    \cup {[exclusions |-> load_exclusions, product |-> p,
           calls |-> {"validate_product", "validate_image_alt_text"}] :
             p \in PartialImageProducts}
    \cup {[exclusions |-> load_exclusions, product |-> p,
           calls |-> {"validate_tags"}] : p \in TagProducts}
    \cup {[exclusions |-> load_exclusions, product |-> p,
           calls |-> {"validate_metafields"}] : p \in MetafieldProducts}
    \cup {[exclusions |-> load_exclusions, product |-> <<>>,
           calls |-> {"parse_date_tag"}, tag |-> tag] : tag \in DateTags}
    \cup {[exclusions |-> ExclusionList({BarcodeIsbn}, {}), product |-> p,
           calls |-> {"should_exclude"}] : p \in PatternProducts}
    \cup {[exclusions |-> load_exclusions, product |-> p,
           calls |-> {"generate_import_csv"}] : p \in ImportProducts}
    \cup {[exclusions |-> load_exclusions, product |-> <<>>,
           calls |-> {"get_column_order"}, fields |-> fields] : fields \in FieldDicts}
    \cup {[exclusions |-> load_exclusions, product |-> p,
           calls |-> {"map_product_data"}] :
             p \in MapperTagProducts \cup MapperVariantProducts}
    \cup {[exclusions |-> load_exclusions, product |-> p,
           calls |-> {"validate_product"}] :
             p \in AbsentFieldProducts \cup NullFieldProducts}
    \cup {[exclusions |-> e, product |-> p, calls |-> {"should_exclude"}] :
             e \in ExclusionConfigs, p \in UntitledProducts}

\* The records of the catalog a report run fetches: a record in order, a
\* record of an excluded title that fails the checks, and records with no
\* tags and with no image or MaxImages images without alt text; each under
\* either of two ids
CatalogIds == {"p1", "p2"}

FlaggedProduct(id, k) ==
    [GoodProduct(id, TitleBread) EXCEPT
        !.tags = <<>>, !.images = [i \in 1..k |-> Image("img1", NoneStr)]]

CatalogProducts ==
    {GoodProduct(id, TitleBread) : id \in CatalogIds}
    \cup {BadProduct(id, TitleGiftCard) : id \in CatalogIds}
    \cup {FlaggedProduct(id, k) : id \in CatalogIds, k \in {0, MaxImages}}

\* All orders of the sequence s
Orders(s) ==
    {[i \in 1..Len(s) |-> s[f[i]]] :
        f \in {g \in [1..Len(s) -> 1..Len(s)] :
                  \A i, j \in 1..Len(s) : g[i] = g[j] => i = j}}

NoFile == [written |-> FALSE]

NoResult == [returned |-> FALSE]

NoInput == [exclusions |-> ExclusionList({}, {}), product |-> <<>>, calls |-> {}]

\* The locals of the report as one record, and back
locals ==
    [issues_found |-> issues_found, published_count |-> published_count,
     excluded_count |-> excluded_count, calls |-> calls]

InitReport ==
    /\ catalog \in SeqsUpTo(CatalogProducts, MaxBatch)
    /\ run = "first"
    /\ validator = ProductValidator(ValidationConfig)
    /\ exclusions = load_exclusions
    /\ products = <<>>
    /\ pos_next = 1
    /\ issues_found = <<>>
    /\ published_count = 0
    /\ excluded_count = 0
    /\ calls = <<>>
    /\ result = NoResult
    /\ import_file = NoFile
    /\ previous = [catalog |-> <<>>, result |-> NoResult, import_file |-> NoFile]
    /\ pc = "start"

IdleUnit == input = NoInput /\ call = "none" /\ args = <<>> /\ ret = <<>>

Init == InitReport /\ IdleUnit /\ IdleIo

\* generate_validation_report up to its loop: the instances are constructed,
\* the batch is fetched and the locals are initialised
StartReport ==
    /\ pc = "start"
    /\ validator' = ProductValidator(ValidationConfig)
    /\ exclusions' = load_exclusions
    /\ products' = catalog
    /\ pos_next' = 1
    /\ issues_found' = report_locals.issues_found
    /\ published_count' = report_locals.published_count
    /\ excluded_count' = report_locals.excluded_count
    /\ calls' = report_locals.calls
    /\ pc' = "loop"
    /\ UNCHANGED <<catalog, run, result, import_file, previous>>
    /\ UNCHANGED unit_vars
    /\ UNCHANGED io_vars

\* One iteration of the loop over the batch
ProcessProduct ==
    /\ pc = "loop"
    /\ pos_next <= Len(products)
    /\ LET st == loop_body(validator, exclusions, locals, products[pos_next], pos_next)
       IN  /\ issues_found' = st.issues_found
           /\ published_count' = st.published_count
           /\ excluded_count' = st.excluded_count
           /\ calls' = st.calls
    /\ pos_next' = pos_next + 1
    /\ UNCHANGED <<catalog, run, validator, exclusions, products, result,
                   import_file, previous, pc>>
    /\ UNCHANGED unit_vars
    /\ UNCHANGED io_vars

\* The loop has ended: generate_validation_report returns
FinishReport ==
    /\ pc = "loop"
    /\ pos_next > Len(products)
    /\ result' = report_result(locals)
    /\ pc' = "main"
    /\ UNCHANGED <<catalog, run, validator, exclusions, products, pos_next, issues_found,
                   published_count, excluded_count, calls, import_file, previous>>
    /\ UNCHANGED unit_vars
    /\ UNCHANGED io_vars

\* main, issues found: the import file is generated
GenerateImportCsv ==
    /\ pc = "main"
    /\ result.issues # <<>>
    /\ import_file' = [written |-> TRUE] @@ generate_import_csv(result.issues)
    /\ pc' = "done"
    /\ UNCHANGED <<catalog, run, validator, exclusions, products, pos_next, issues_found,
                   published_count, excluded_count, calls, result, previous>>
    /\ UNCHANGED unit_vars
    /\ UNCHANGED io_vars

\* main, no issue found: no file is written
NoIssues ==
    /\ pc = "main"
    /\ result.issues = <<>>
    /\ pc' = "done"
    /\ UNCHANGED <<catalog, run, validator, exclusions, products, pos_next, issues_found,
                   published_count, excluded_count, calls, result, import_file,
                   previous>>
    /\ UNCHANGED unit_vars
    /\ UNCHANGED io_vars

\* The report is run a second time, on the same records in any order
Rerun ==
    /\ pc = "done"
    /\ run = "first"
    /\ previous' = [catalog |-> catalog, result |-> result, import_file |-> import_file]
    /\ catalog' \in Orders(catalog)
    /\ run' = "second"
    /\ result' = NoResult
    /\ import_file' = NoFile
    /\ pc' = "start"
    /\ UNCHANGED <<validator, exclusions, products, pos_next, issues_found,
                   published_count, excluded_count, calls>>
    /\ UNCHANGED unit_vars
    /\ UNCHANGED io_vars

Next ==
    \/ StartReport
    \/ ProcessProduct
    \/ FinishReport
    \/ GenerateImportCsv
    \/ NoIssues
    \/ Rerun

Spec == Init /\ [][Next]_vars

(***************************************************************************)
(* Single calls: one function applied to one input.                        *)
(***************************************************************************)
IdleReport ==
    /\ catalog = <<>>
    /\ run = "first"
    /\ validator = ProductValidator(ValidationConfig)
    /\ exclusions = load_exclusions
    /\ products = <<>>
    /\ pos_next = 1
    /\ issues_found = <<>>
    /\ published_count = 0
    /\ excluded_count = 0
    /\ calls = <<>>
    /\ result = NoResult
    /\ import_file = NoFile
    /\ previous = [catalog |-> <<>>, result |-> NoResult, import_file |-> NoFile]
    /\ pc = "unit"

InitUnit ==
    /\ IdleReport
    /\ IdleIo
    /\ input \in UnitInputs
    /\ call = "none"
    /\ args = <<>>
    /\ ret = <<>>

\* The issue with another wording of its message
reworded(issue, message) == [issue EXCEPT !.message = message]

\* The issue lists map_validation_issues is called with for a record: what
\* the validator returns for it, each of its issues alone, and the
\* metafield issues under two other wordings
IssueLists(product) ==
    LET issues == validate_product(ProductValidator(ValidationConfig), product)
        single == {<<issues[i]>> : i \in 1..Len(issues)}
    IN  {issues} \cup single
        \cup {<<reworded(l[1], m)>> :
                 l \in {s \in single : "details" \in DOMAIN s[1]
                                       /\ "field" \in DOMAIN s[1].details},
                 m \in {MsgMetafieldAuthorReworded, MsgAuthorReworded}}

\* exclusions.should_exclude(product)
CallShouldExclude ==
    /\ call = "none"
    /\ "should_exclude" \in input.calls
    /\ call' = "should_exclude"
    /\ args' = <<>>
    /\ ret' = should_exclude(input.exclusions, input.product)
    /\ UNCHANGED input
    /\ UNCHANGED report_vars
    /\ UNCHANGED io_vars

\* validator.validate_product(product)
CallValidateProduct ==
    /\ call = "none"
    /\ "validate_product" \in input.calls
    /\ call' = "validate_product"
    /\ args' = <<>>
    /\ ret' = validate_product(validator, input.product)
    /\ UNCHANGED input
    /\ UNCHANGED report_vars
    /\ UNCHANGED io_vars

\* mapper.map_validation_issues(product, issues)
CallMapValidationIssues ==
    /\ call = "none"
    /\ "map_validation_issues" \in input.calls
    /\ \E issues \in IssueLists(input.product) :
          /\ args' = issues
          /\ ret' = map_validation_issues(ValidationMapper, input.product, issues)
    /\ call' = "map_validation_issues"
    /\ UNCHANGED input
    /\ UNCHANGED report_vars
    /\ UNCHANGED io_vars

\* The record with every image's alt text replaced by the alt text of the
\* image row of its position
relabelled(product, image_rows) ==
    [product EXCEPT !.images =
        [i \in 1..Len(product.images) |->
            [product.images[i] EXCEPT
                !.altText = dict_get(image_rows[i], "Image Alt Text").value]]]

\* mapper.map_image_issues(product, images), the rows imported unmodified,
\* then validator.validate_image_alt_text on the record
CallRelabel ==
    /\ call = "none"
    /\ "relabel" \in input.calls
    /\ LET rows == map_image_issues(ValidationMapper, input.product, input.product.images)
       IN  /\ args' = rows
           /\ ret' = validate_image_alt_text(validator, relabelled(input.product, rows))
    /\ call' = "relabel"
    /\ UNCHANGED input
    /\ UNCHANGED report_vars
    /\ UNCHANGED io_vars

\* ProductValidator(ValidationConfig(min_images=n)).validate_images(product)
CallValidateImages ==
    /\ call = "none"
    /\ "validate_images" \in input.calls
    /\ \E min_images \in 1..(MaxImages + 1) :
          LET config == [ValidationConfig EXCEPT !.min_images = min_images]
          IN  /\ args' = config
              /\ ret' = validate_images(ProductValidator(config), input.product)
    /\ call' = "validate_images"
    /\ UNCHANGED input
    /\ UNCHANGED report_vars
    /\ UNCHANGED io_vars

\* validator.validate_tags(product), validator.validate_metafields(product),
\* validator.validate_image_alt_text(product): one check alone
CallCheck ==
    /\ call = "none"
    /\ \E method \in input.calls \cap {"validate_tags", "validate_metafields",
                                       "validate_image_alt_text"} :
          /\ call' = method
          /\ ret' = apply_check(validator, input.product, method)
    /\ args' = <<>>
    /\ UNCHANGED input
    /\ UNCHANGED report_vars
    /\ UNCHANGED io_vars

\* TagValidator.parse_date_tag(tag)
CallParseDateTag ==
    /\ call = "none"
    /\ "parse_date_tag" \in input.calls
    /\ call' = "parse_date_tag"
    /\ args' = input.tag
    /\ ret' = parse_date_tag(input.tag)
    /\ UNCHANGED input
    /\ UNCHANGED report_vars
    /\ UNCHANGED io_vars

\* mapper.map_product_data(product)
CallMapProductData ==
    /\ call = "none"
    /\ "map_product_data" \in input.calls
    /\ call' = "map_product_data"
    /\ args' = <<>>
    /\ ret' = map_product_data(ValidationMapper, input.product)
    /\ UNCHANGED input
    /\ UNCHANGED report_vars
    /\ UNCHANGED io_vars

\* mapper.get_column_order(fields)
CallGetColumnOrder ==
    /\ call = "none"
    /\ "get_column_order" \in input.calls
    /\ call' = "get_column_order"
    /\ args' = input.fields
    /\ ret' = get_column_order(ValidationMapper, input.fields)
    /\ UNCHANGED input
    /\ UNCHANGED report_vars
    /\ UNCHANGED io_vars

\* generate_import_csv(products_with_issues) for the dict that holds the
\* record under its id with the issues the validator finds in it
CallGenerateImportCsv ==
    /\ call = "none"
    /\ "generate_import_csv" \in input.calls
    /\ call' = "generate_import_csv"
    /\ args' = issues_set(<<>>, input.product.id,
                          [product |-> input.product,
                           issues |-> validate_product(ProductValidator(ValidationConfig),
                                                       input.product)])
    /\ ret' = generate_import_csv(args')
    /\ UNCHANGED input
    /\ UNCHANGED report_vars
    /\ UNCHANGED io_vars

NextUnit ==
    \/ CallShouldExclude
    \/ CallValidateProduct
    \/ CallMapValidationIssues
    \/ CallRelabel
    \/ CallValidateImages
    \/ CallCheck
    \/ CallParseDateTag
    \/ CallMapProductData
    \/ CallGetColumnOrder
    \/ CallGenerateImportCsv

SpecUnit == InitUnit /\ [][NextUnit]_vars


(***************************************************************************)
(* fetch_all_products, one page query at a time.                           *)
(***************************************************************************)
InitFetch ==
    /\ IdleReport
    /\ IdleUnit
    /\ server = <<>>
    /\ fetch = [pc |-> "start"]
    /\ retry = NotRetrying
    /\ IdleLimiter

\* api = ShopifyAPI() and the locals: the constructor raises ValueError when
\* the shop is not configured, and nothing catches it
FetchStart ==
    /\ fetch.pc = "start"
    /\ \E configured \in BOOLEAN :
          fetch' = IF configured
                   THEN [pc |-> "loop", locals |-> fetch_locals]
                   ELSE [pc |-> "raised", ret |-> Raise("ValueError")]
    /\ UNCHANGED <<server, retry>>
    /\ UNCHANGED limiter_vars
    /\ UNCHANGED report_vars
    /\ UNCHANGED unit_vars

\* One iteration of the while loop: the query is sent with the cursor, and
\* the page is taken in or the exception is logged and raised again
FetchQuery ==
    /\ fetch.pc = "loop"
    /\ fetch.locals.has_next_page
    /\ Len(server) < MaxPages
    /\ \E response \in run_query("products", page_variables(fetch.locals)) :
          /\ server' = Append(server, [variables |-> page_variables(fetch.locals),
                                       response |-> response])
          /\ fetch' = fetch_outcome(fetch_page(fetch.locals, response))
    /\ UNCHANGED retry
    /\ UNCHANGED limiter_vars
    /\ UNCHANGED report_vars
    /\ UNCHANGED unit_vars

\* has_next_page is false: the loop ends and all_products is returned
FetchReturn ==
    /\ fetch.pc = "loop"
    /\ ~fetch.locals.has_next_page
    /\ fetch' = [pc |-> "returned", ret |-> fetch.locals.all_products]
    /\ UNCHANGED <<server, retry>>
    /\ UNCHANGED limiter_vars
    /\ UNCHANGED report_vars
    /\ UNCHANGED unit_vars

NextFetch ==
    \/ FetchStart
    \/ FetchQuery
    \/ FetchReturn

SpecFetch == InitFetch /\ [][NextFetch]_vars

(***************************************************************************)
(* run_query_with_retries, one request at a time.                          *)
(***************************************************************************)
InitRetry ==
    /\ IdleReport
    /\ IdleUnit
    /\ IdleFetch
    /\ retry \in {retry_locals(max_retries, DefaultDelay) : max_retries \in 0..MaxRetries}
    /\ IdleLimiter

\* One iteration of the while loop: a request is sent, and its data is
\* returned or the attempt is counted as failed
RetrySend ==
    /\ retry.pc = "loop"
    /\ retry.attempt < retry.max_retries
    /\ \E outcome \in PostOutcomes :
          retry' = retry_attempt([retry EXCEPT !.sent = Append(@, outcome)], outcome)
    /\ UNCHANGED <<server, fetch>>
    /\ UNCHANGED limiter_vars
    /\ UNCHANGED report_vars
    /\ UNCHANGED unit_vars

\* attempt has reached max_retries: the loop ends and the exception is raised
RetryGiveUp ==
    /\ retry.pc = "loop"
    /\ ~(retry.attempt < retry.max_retries)
    /\ retry' = [retry EXCEPT !.pc = "raised", !.ret = Raise("Exception")]
    /\ UNCHANGED <<server, fetch>>
    /\ UNCHANGED limiter_vars
    /\ UNCHANGED report_vars
    /\ UNCHANGED unit_vars

NextRetry ==
    \/ RetrySend
    \/ RetryGiveUp

SpecRetry == InitRetry /\ [][NextRetry]_vars

\* requests.post and time.sleep return: the loop goes on until it ends
SpecRetryLive == SpecRetry /\ WF_vars(NextRetry)

(***************************************************************************)
(* One call of the wrapper ShopifyRateLimiter.__call__ returns, one        *)
(* iteration of its loop at a time.                                        *)
(***************************************************************************)
InitLimiter ==
    /\ IdleReport
    /\ IdleUnit
    /\ IdleFetch
    /\ retry = NotRetrying
    /\ limiter \in {ShopifyRateLimiter(max_calls, per_seconds, max_retries) :
                      max_calls \in 0..MaxCalls, per_seconds \in {1, 4},
                      max_retries \in 0..MaxLimiterRetries}
    /\ wrapper = wrapper_locals
    /\ clock = 0

\* An iteration that finds a slot: the call is recorded and the function
\* invoked; its value is returned, a rate-limit error is slept on for
\* 2 ** attempt seconds and a random part, late by at most half a second,
\* and any other exception is raised again
WrapperInvoke ==
    /\ wrapper.pc = "loop"
    /\ wrapper.attempt < limiter.max_retries
    /\ has_slot(limiter, clock)
    /\ limiter' = [limiter EXCEPT !.calls = Append(recent_calls(limiter, clock), clock)]
    /\ \E outcome \in FuncOutcomes, random \in 0..1, late \in 0..1 :
          LET invoked == Append(wrapper.invoked,
                                [time |-> clock, attempt |-> wrapper.attempt,
                                 outcome |-> outcome])
          IN  IF "returned" \in DOMAIN outcome
              THEN /\ wrapper' = [wrapper EXCEPT !.pc = "returned", !.invoked = invoked,
                                                 !.ret = outcome.returned]
                   /\ clock' = clock + late
              ELSE IF is_rate_limit_error(outcome.exception)
              THEN /\ wrapper' = [wrapper EXCEPT !.attempt = @ + 1, !.invoked = invoked]
                   /\ clock' = clock + seconds(pow2(wrapper.attempt)) + random + late
              ELSE /\ wrapper' = [wrapper EXCEPT !.pc = "raised", !.invoked = invoked,
                                                 !.ret = Raise(outcome.exception)]
                   /\ clock' = clock + late
    /\ UNCHANGED <<server, fetch, retry>>
    /\ UNCHANGED report_vars
    /\ UNCHANGED unit_vars

\* An iteration that finds no slot: the old calls are removed and the
\* wrapper sleeps for per_seconds and a random part
WrapperWait ==
    /\ wrapper.pc = "loop"
    /\ wrapper.attempt < limiter.max_retries
    /\ ~has_slot(limiter, clock)
    /\ limiter' = [limiter EXCEPT !.calls = recent_calls(limiter, clock)]
    /\ wrapper' = [wrapper EXCEPT !.attempt = @ + 1, !.waited = @ + 1]
    /\ \E random \in 0..1, late \in 0..1 :
          clock' = clock + limiter.per_seconds + random + late
    /\ UNCHANGED <<server, fetch, retry>>
    /\ UNCHANGED report_vars
    /\ UNCHANGED unit_vars

\* The for loop has run max_retries times
WrapperGiveUp ==
    /\ wrapper.pc = "loop"
    /\ ~(wrapper.attempt < limiter.max_retries)
    /\ wrapper' = [wrapper EXCEPT !.pc = "raised", !.ret = Raise(MsgMaxRetries)]
    /\ UNCHANGED <<limiter, clock>>
    /\ UNCHANGED <<server, fetch, retry>>
    /\ UNCHANGED report_vars
    /\ UNCHANGED unit_vars

NextLimiter ==
    \/ WrapperInvoke
    \/ WrapperWait
    \/ WrapperGiveUp

SpecLimiter == InitLimiter /\ [][NextLimiter]_vars

(***************************************************************************)
(* Properties.                                                             *)
(***************************************************************************)

\* The record and the exclusion list of the single call
the_product == input.product

the_title == Get(input.product, "title", <<>>)

the_status == Get(input.product, "status", "None")

\* C1: validate_product returns the empty list for every record whose
\* status is not "ACTIVE", a record without a status included, whatever its
\* other fields hold: no check contributes an issue.
C1_UnpublishedHasNoIssues ==
    (call = "validate_product" /\ the_status # "ACTIVE") => ret = <<>>

\* A record without a status, with no image, no tag and no variant, validated
C1_Witness ==
    /\ call = "validate_product"
    /\ "status" \notin DOMAIN the_product
    /\ the_product.images = <<>>
    /\ the_product.variants = <<>>
    /\ ret = <<>>

\* The four rules of the exclusion list, read off its configured entries
matches_exact_title(self, product) ==
    Get(product, "title", <<>>) \in self.exact_titles

matching_patterns(self, product) ==
    {i \in 1..Len(self.title_patterns) :
        regex_search(self.title_patterns[i], Get(product, "title", <<>>))}

matches_pattern(self, product) == matching_patterns(self, product) # {}

matching_variants(self, product) ==
    LET variants == Get(product, "variants", <<>>)
    IN  {i \in 1..Len(variants) :
            /\ truthy(Get(variants[i], "barcode", NoneStr))
            /\ Get(variants[i], "barcode", NoneStr) \in self.barcodes}

matches_barcode(self, product) == matching_variants(self, product) # {}

matches_url(self, product) ==
    /\ truthy(Get(product, "handle", <<>>))
    /\ product_url(Get(product, "handle", <<>>)) \in self.urls

Min(S) == CHOOSE x \in S : \A y \in S : x <= y

\* What should_exclude returned is what the first rule the record matches,
\* in the order exact title, pattern, barcode, URL, gives
first_stage_decides(self, product, returned) ==
    LET exact   == matches_exact_title(self, product)
        pattern == matches_pattern(self, product)
        barcode == matches_barcode(self, product)
        url     == matches_url(self, product)
    IN  /\ exact => returned = <<TRUE, ExactTitlePrefix \o Get(product, "title", <<>>)>>
        /\ (~exact /\ pattern) =>
              /\ returned[1]
              /\ startswith(returned[2], PartialTitlePrefix)
        /\ (~exact /\ ~pattern /\ barcode) =>
              returned = <<TRUE, BarcodePrefix \o
                             product.variants[Min(matching_variants(self, product))].barcode>>
        /\ (~exact /\ ~pattern /\ ~barcode /\ url) =>
              returned = <<TRUE, UrlPrefix \o product_url(product.handle)>>
        /\ (~exact /\ ~pattern /\ ~barcode /\ ~url) => returned = <<FALSE, NoneStr>>

C3_ReasonHoldsConfiguredText ==
    (/\ call = "should_exclude"
     /\ ret[1]
     /\ startswith(ret[2], PartialTitlePrefix))
        => contains(ret[2],
                    input.exclusions.partial_patterns[
                        Min(matching_patterns(input.exclusions, the_product))].pattern)

\* The positions of the batch the loop has been through, and those of them
\* the exclusion list excludes
processed == 1..(pos_next - 1)

excluded_positions == {i \in processed : should_exclude(exclusions, products[i])[1]}

\* Every record is put to the exclusion list, and the validator is called
\* on a record only right after the exclusion list was, and never on a
\* record it excludes
exclusion_comes_first ==
    /\ \A i \in processed : \E k \in 1..Len(calls) : calls[k] = <<"should_exclude", i>>
    /\ \A k \in 1..Len(calls) :
          calls[k][1] = "validate_product" =>
              /\ k > 1
              /\ calls[k - 1] = <<"should_exclude", calls[k][2]>>
    /\ \A i \in excluded_positions :
          \A k \in 1..Len(calls) : calls[k] # <<"validate_product", i>>

\* excluded_count has gone up by one for every excluded record, in the
\* locals and in the dict returned
excluded_counted ==
    /\ excluded_count = Cardinality(excluded_positions)
    /\ result # NoResult =>
          /\ result.excluded_count = excluded_count
          /\ result.issues = issues_found

\* C4, as stated: the report puts every record to the exclusion list before
\* the validator, never validates an excluded record, counts every excluded
\* record once in excluded_count, and no excluded record's id is a key of
\* the issue map.
C4_ExcludedIdIsNoKey ==
    /\ exclusion_comes_first
    /\ excluded_counted
    /\ \A i \in excluded_positions : products[i].id \notin issues_keys(issues_found)

\* C4, amended: the report puts every record to the exclusion list before
\* the validator, never validates an excluded record, counts every excluded
\* record once in excluded_count, and no entry of the issue map holds an
\* excluded record: the id of an excluded record is a key only when a
\* validated record with issues carries the same id.
C4_ExcludedIsNoEntry ==
    /\ exclusion_comes_first
    /\ excluded_counted
    /\ \A k \in 1..Len(issues_found) :
          ~should_exclude(exclusions, issues_found[k].data.product)[1]
    /\ \A i \in excluded_positions :
          products[i].id \in issues_keys(issues_found) =>
              \E j \in processed \ excluded_positions :
                 /\ products[j].id = products[i].id
                 /\ validate_product(validator, products[j]) # <<>>

\* A finished run over an excluded record that fails the checks and a
\* validated record with issues
C4_Witness ==
    /\ pc = "done"
    /\ excluded_count = 1
    /\ \E i \in excluded_positions : validate_product(validator, products[i]) # <<>>
    /\ Len(result.issues) = 1

\* How many issues of the list carry the message
count_message(issues, message) ==
    Cardinality({i \in 1..Len(issues) : issues[i].message = message})

\* C5: for a published record with an empty variant list, validate_product
\* reports "Product has no variants" exactly once and reports no barcode,
\* SKU, taxable or fulfillment issue.
C5_NoVariantsReportedOnce ==
    (/\ call = "validate_product"
     /\ the_status = "ACTIVE"
     /\ Get(the_product, "variants", <<>>) = <<>>)
        => /\ count_message(ret, MsgNoVariants) = 1
           /\ \A i \in 1..Len(ret) :
                 ret[i].message \notin {MsgMissingBarcode, MsgMissingSku, MsgNotManual,
                                        MsgNotOnline, MsgNotShipping, MsgNotTaxable}

\* The metafield an issue names in its details, and its column
is_metafield_issue(issue) ==
    /\ "details" \in DOMAIN issue
    /\ "field" \in DOMAIN issue.details
    /\ issue.details.field \in {FieldAuthor, FieldLanguage, FieldBinding, FieldPubDate}

metafield_column(field) ==
    IF field = FieldAuthor THEN ColAuthor
    ELSE IF field = FieldLanguage THEN ColLanguage
    ELSE IF field = FieldBinding THEN ColBinding
    ELSE ColPubDate

\* C6: map_validation_issues adds, for every issue whose details name one of
\* the four required metafields, the column of that metafield, and it does
\* so by the details: the same issue under another message maps the same.
C6_MetafieldIssueAddsColumn ==
    call = "map_validation_issues" =>
        /\ \A i \in 1..Len(args) :
              is_metafield_issue(args[i])
                  => dict_has(ret, metafield_column(args[i].details.field))
        /\ \A m \in {MsgMetafieldAuthorReworded, MsgAuthorReworded} :
              map_validation_issues(ValidationMapper, the_product,
                  [i \in 1..Len(args) |->
                      IF is_metafield_issue(args[i]) THEN reworded(args[i], m)
                      ELSE args[i]]) = ret

RECURSIVE expected_row_count(_, _)
\* One row for each image and one core row, for each of the first k entries
expected_row_count(entries, k) ==
    IF k = 0 THEN 0
    ELSE expected_row_count(entries, k - 1)
         + Len(Get(entries[k].data.product, "images", <<>>)) + 1

\* C7: the import file holds, for every record with issues, one row for each
\* of its images and one core row: n images make n + 1 rows.
C7_ImageRowsAndCoreRow ==
    (pc = "done" /\ import_file.written)
        => Len(import_file.lines) = expected_row_count(result.issues, Len(result.issues))

\* C8: for every record with a title and any number of images, once each
\* image carries the alt text map_image_issues generates for its position,
\* validate_image_alt_text finds no issue on the record.
C8_GeneratedAltTextValidates ==
    call = "relabel" => ret = <<>>

\* A record of two images whose alt texts both fail validation, relabelled
C8_Witness ==
    /\ call = "relabel"
    /\ truthy(the_title)
    /\ Len(the_product.images) = 2
    /\ Len(validate_image_alt_text(validator, the_product)) = 2
    /\ ret = <<>>

\* C9: a run over the same records in another order returns the same issue
\* map and the same counts, also when two records carry the same id and
\* differ in content.
C9_OrderInsensitive ==
    (run = "second" /\ result # NoResult) =>
        /\ issues_items(result.issues) = issues_items(previous.result.issues)
        /\ result.total_products = previous.result.total_products
        /\ result.issues_count = previous.result.issues_count
        /\ result.excluded_count = previous.result.excluded_count

is_issue_list(returned) ==
    /\ ~raised(returned)
    /\ \A i \in 1..Len(returned) : returned[i].severity \in {"error", "warning"}

\* C11: validate_product is total on published records with absent or null
\* sub-fields: whichever of title, images, priceRangeV2 or its
\* minVariantPrice, collections, metafields or a node's namespace, key or
\* value, variants, a variant's inventoryItem or location is missing or
\* null, it returns a list of issues and never raises.
C11_TotalOnPartialRecords ==
    (call = "validate_product" /\ the_status = "ACTIVE") => is_issue_list(ret)

\* C12: should_exclude returns (False, None) for a None record, an empty
\* record, a record with no title key and a record whose title is None or
\* empty, whatever its barcodes and its handle: no barcode rule and no URL
\* rule excludes a record without a title.
C12_UntitledIsNotExcluded ==
    (call = "should_exclude" /\ ~truthy(the_title)) => ret = <<FALSE, NoneStr>>

\* A record with no title key whose barcode and URL are both on the list
C12_Witness ==
    /\ call = "should_exclude"
    /\ "handle" \in DOMAIN the_product
    /\ "title" \notin DOMAIN the_product
    /\ matches_barcode(input.exclusions, the_product)
    /\ matches_url(input.exclusions, the_product)
    /\ ret = <<FALSE, NoneStr>>

\* What each check returns on the record alone, in the order images,
\* description, price, collections, tags, metafields, barcode, SKU, variant
\* settings, image alt text
checks_alone(self, product) ==
    << validate_images(self, product), validate_description(self, product),
       validate_pricing(self, product), validate_collections(self, product),
       validate_tags(self, product), validate_metafields(self, product),
       validate_barcode(self, product), validate_sku(self, product),
       validate_variant_settings(self, product),
       validate_image_alt_text(self, product) >>

RECURSIVE concatenation(_, _)
\* The first k of the lists one after the other; a check that raises ends
\* the call with its exception
concatenation(lists, k) ==
    IF k = 0 THEN <<>>
    ELSE Let(concatenation(lists, k - 1), LAMBDA before : extend(before, lists[k]))

\* C13: for a published record, what validate_product returns is what the
\* checks return on the record alone, one after the other in the order
\* images, description, price, collections, tags, metafields, barcode, SKU,
\* variant settings, image alt text: no check suppresses, reorders or
\* alters the issues of another.
C13_ConcatenationInOrder ==
    (call = "validate_product" /\ the_status = "ACTIVE")
        => ret = Let(checks_alone(validator, the_product),
                     LAMBDA lists : concatenation(lists, Len(lists)))

\* A published record that fails the image check, the metafield check and
\* both variant checks, validated
C13_Witness ==
    /\ call = "validate_product"
    /\ the_status = "ACTIVE"
    /\ is_issue_list(ret)
    /\ validate_images(validator, the_product) # <<>>
    /\ validate_metafields(validator, the_product) # <<>>
    /\ validate_barcode(validator, the_product) # <<>>
    /\ validate_sku(validator, the_product) # <<>>
    /\ Len(ret) >= 4

the_variants == Get(the_product, "variants", <<>>)

\* The issues of the list that carry the message, in their order
with_message(issues, message) == SelectSeq(issues, LAMBDA issue : issue.message = message)

lacks_barcode(node) == ~truthy(Get(node, "barcode", NoneStr))

lacks_sku(node) == ~truthy(Get(node, "sku", NoneStr))

lacks_taxable(node) == ~Get(node, "taxable", FALSE)

\* One error with the message and the id of the variant in its details for
\* each of the variants, in their order
variant_errors(variants, message) ==
    [i \in 1..Len(variants) |->
        [severity |-> "error", message |-> message,
         details |-> [variant_id |-> Get(variants[i], "id", "None")]]]

\* The pairs of a variant and a field it lacks
missing_pairs(variants) ==
    {<<i, "barcode">> : i \in {j \in 1..Len(variants) : lacks_barcode(variants[j])}}
    \cup {<<i, "sku">> : i \in {j \in 1..Len(variants) : lacks_sku(variants[j])}}
    \cup {<<i, "taxable">> : i \in {j \in 1..Len(variants) : lacks_taxable(variants[j])}}

\* C14: for a record with a non-empty variant list, the variant checks
\* yield for each variant one error if its barcode is missing or empty, one
\* if its SKU is missing or empty and one if its taxable flag is missing or
\* false, each with the id of the variant in details.variant_id, and none
\* for a variant that has all three: as many errors as there are pairs of
\* a variant and a missing field.
C14_OneErrorPerMissingField ==
    (/\ call = "validate_product"
     /\ the_status = "ACTIVE"
     /\ the_variants # <<>>
     /\ is_issue_list(ret))
        => /\ with_message(ret, MsgMissingBarcode)
                 = variant_errors(SelectSeq(the_variants, lacks_barcode), MsgMissingBarcode)
           /\ with_message(ret, MsgMissingSku)
                 = variant_errors(SelectSeq(the_variants, lacks_sku), MsgMissingSku)
           /\ with_message(ret, MsgNotTaxable)
                 = variant_errors(SelectSeq(the_variants, lacks_taxable), MsgNotTaxable)
           /\ Len(with_message(ret, MsgMissingBarcode)) + Len(with_message(ret, MsgMissingSku))
                 + Len(with_message(ret, MsgNotTaxable))
                 = Cardinality(missing_pairs(the_variants))

\* Two variants, the first without a barcode, the second without a SKU and
\* not taxable: three errors, each with the id of its variant
C14_Witness ==
    /\ call = "validate_product"
    /\ the_status = "ACTIVE"
    /\ Len(the_variants) = 2
    /\ missing_pairs(the_variants) = {<<1, "barcode">>, <<2, "sku">>, <<2, "taxable">>}
    /\ Get(the_variants[1], "id", "None") # Get(the_variants[2], "id", "None")
    /\ is_issue_list(ret)
    /\ with_message(ret, MsgMissingSku)[1].details.variant_id = Get(the_variants[2], "id", "None")
    /\ Len(with_message(ret, MsgMissingBarcode)) = 1
    /\ Len(with_message(ret, MsgNotTaxable)) = 1

\* The inventory levels of a variant node, none when it has no inventoryItem
levels_of(node) == Get(Get(node, "inventoryItem", <<>>), "inventoryLevels", <<>>)

\* The variant exposes a location: its list of inventory levels is not empty
has_location(node) == levels_of(node) # <<>>

is_service(node) ==
    has_location(node) /\ Get(levels_of(node)[1].location, "isFulfillmentService", FALSE)

not_online(node) ==
    has_location(node) /\ ~Get(levels_of(node)[1].location, "fulfillsOnlineOrders", FALSE)

not_shipping(node) ==
    has_location(node) /\ ~Get(levels_of(node)[1].location, "shipsInventory", FALSE)

\* One error with the message, the id of the variant and the name of its
\* location for each of the variants, in their order
location_errors(variants, message) ==
    [i \in 1..Len(variants) |->
        [severity |-> "error", message |-> message,
         details |-> [variant_id |-> Get(variants[i], "id", "None"),
                      location |-> Get(levels_of(variants[i])[1].location, "name", "None")]]]

\* C19: the three checks of the fulfillment location run for a variant only
\* when its list of inventory levels is not empty, and then each on its own:
\* one error if the location is a fulfillment service, one if it does not
\* fulfill online orders, one if it does not ship inventory; a variant
\* with no inventory level yields none of the three.
C19_LocationChecksIndependent ==
    (/\ call = "validate_product"
     /\ the_status = "ACTIVE"
     /\ is_issue_list(ret))
        => /\ with_message(ret, MsgNotManual)
                 = location_errors(SelectSeq(the_variants, is_service), MsgNotManual)
           /\ with_message(ret, MsgNotOnline)
                 = location_errors(SelectSeq(the_variants, not_online), MsgNotOnline)
           /\ with_message(ret, MsgNotShipping)
                 = location_errors(SelectSeq(the_variants, not_shipping), MsgNotShipping)

\* Two variants, one with no inventory level and one at a location that
\* fails all three checks: three errors, all of the second
C19_Witness ==
    /\ call = "validate_product"
    /\ the_status = "ACTIVE"
    /\ Len(the_variants) = 2
    /\ ~has_location(the_variants[1])
    /\ is_service(the_variants[2])
    /\ not_online(the_variants[2])
    /\ not_shipping(the_variants[2])
    /\ is_issue_list(ret)
    /\ \A m \in {MsgNotManual, MsgNotOnline, MsgNotShipping} :
          /\ Len(with_message(ret, m)) = 1
          /\ with_message(ret, m)[1].details.variant_id = the_variants[2].id

\* One variant at a location that is no fulfillment service and ships but
\* does not fulfill online orders: one error of the three
C19_WitnessOneOfThree ==
    /\ call = "validate_product"
    /\ is_issue_list(ret)
    /\ Len(the_variants) = 1
    /\ has_location(the_variants[1])
    /\ ~is_service(the_variants[1])
    /\ not_online(the_variants[1])
    /\ ~not_shipping(the_variants[1])
    /\ Len(with_message(ret, MsgNotOnline)) = 1

the_metafields == Get(the_product, "metafields", <<>>)

RequiredKeys == {FieldAuthor, FieldLanguage, FieldBinding, FieldPubDate}

\* The record has a metafield of the namespaced key with a value that is
\* not empty
has_value(nodes, field) ==
    \E i \in 1..Len(nodes) :
        /\ fmt(nodes[i].namespace) \o <<".">> \o fmt(nodes[i].key) = field
        /\ truthy(nodes[i].value)

missing_or_empty(nodes) == {field \in RequiredKeys : ~has_value(nodes, field)}

\* The issues of the list that name the field in their details
naming_field(issues, field) ==
    {i \in 1..Len(issues) :
        /\ "details" \in DOMAIN issues[i]
        /\ "field" \in DOMAIN issues[i].details
        /\ issues[i].details.field = field}

\* C15: validate_metafields yields one error, with the key in details.field,
\* for each of custom.author, custom.language, custom.binding and
\* custom.pub_date that the record lacks or holds with an empty value, each
\* key on its own: as many errors as keys missing or empty, and none for
\* any other metafield.
C15_OneErrorPerMissingKey ==
    (call = "validate_metafields" /\ is_issue_list(ret))
        => /\ \A field \in RequiredKeys :
                 Cardinality(naming_field(ret, field))
                     = IF field \in missing_or_empty(the_metafields) THEN 1 ELSE 0
           /\ \A i \in 1..Len(ret) :
                 /\ ret[i].severity = "error"
                 /\ \E field \in RequiredKeys : i \in naming_field(ret, field)
           /\ Len(ret) = Cardinality(missing_or_empty(the_metafields))

\* A record with an empty author, no language, the other two set and an
\* empty metafield outside the four: two errors
C15_Witness ==
    /\ call = "validate_metafields"
    /\ is_issue_list(ret)
    /\ missing_or_empty(the_metafields) = {FieldAuthor, FieldLanguage}
    /\ \E i \in 1..Len(the_metafields) :
          /\ the_metafields[i].key = KwAuthor
          /\ the_metafields[i].namespace = Custom
          /\ the_metafields[i].value = <<>>
    /\ \E i \in 1..Len(the_metafields) : the_metafields[i] = OtherMetafield
    /\ Len(ret) = 2

the_images == Get(the_product, "images", <<>>)

alt_text_of(node) == Get(node, "altText", <<>>)

\* The alt text an image at the position is to carry
expected_alt_text(product, position) ==
    IF position = 1 THEN BookCoverPrefix \o fmt(product.title) ELSE PresentationImage

\* The image at the position is mislabelled: it has no alt text, or the
\* first differs from the cover text, or a later one differs from the
\* presentation text other than by case
mislabelled(product, position) ==
    LET alt_text == alt_text_of(product.images[position])
    IN  \/ ~truthy(alt_text)
        \/ position = 1 /\ alt_text # expected_alt_text(product, 1)
        \/ position > 1 /\ lower(alt_text) # PresentationImage

\* The positions of the mislabelled images, in order
mislabelled_positions(product) ==
    SelectSeq([i \in 1..Len(product.images) |-> i],
              LAMBDA position : mislabelled(product, position))

\* C16: validate_image_alt_text yields, image by image in the order of the
\* positions, an error exactly for an image at position 1 whose alt text is
\* missing, empty or other than "Book Cover: " and the title, case included,
\* and for an image at a later position whose alt text is missing, empty or
\* other than "presentation image", case aside; each issue is an error and
\* carries the expected text in its details, and the current text when the
\* image has one.
C16_AltTextByPosition ==
    call = "validate_image_alt_text" =>
        LET positions == mislabelled_positions(the_product)
        IN  /\ Len(ret) = Len(positions)
            /\ \A k \in 1..Len(positions) :
                  LET alt_text == alt_text_of(the_images[positions[k]])
                  IN  /\ ret[k].severity = "error"
                      /\ ret[k].details.expected
                            = expected_alt_text(the_product, positions[k])
                      /\ "current" \in DOMAIN ret[k].details <=> truthy(alt_text)
                      /\ truthy(alt_text) => ret[k].details.current = alt_text
                      /\ positions[k] > 1
                            => contains(ret[k].message, str_int(positions[k]))

\* Two images, the first with the cover text in lower case, the second with
\* the presentation text in upper case: one error, of the first
C16_Witness ==
    /\ call = "validate_image_alt_text"
    /\ Len(the_images) = 2
    /\ alt_text_of(the_images[1]) = AltCoverLowerBread
    /\ lower(BookCoverPrefix \o the_title) = AltCoverLowerBread
    /\ alt_text_of(the_images[2]) = AltPresentationUpper
    /\ Len(ret) = 1
    /\ ret[1].details.current = AltCoverLowerBread

the_tags == Get(the_product, "tags", <<>>)

\* C17: validate_tags yields one issue or none, by the number of tags alone:
\* an error for no tag, a warning that holds the tag in its details for one
\* tag, a warning that holds both tags in its details for two tags, and
\* nothing for three tags or more.
C17_IssueByTagCount ==
    call = "validate_tags" =>
        /\ Len(the_tags) = 0 => Len(ret) = 1 /\ ret[1].severity = "error"
        /\ Len(the_tags) = 1 =>
              /\ Len(ret) = 1
              /\ ret[1].severity = "warning"
              /\ ret[1].details.current_tag = the_tags[1]
        /\ Len(the_tags) = 2 =>
              /\ Len(ret) = 1
              /\ ret[1].severity = "warning"
              /\ ret[1].details.current_tags = the_tags
        /\ Len(the_tags) >= 3 => ret = <<>>

\* A record of two different tags: one warning that holds both
C17_Witness ==
    /\ call = "validate_tags"
    /\ Len(the_tags) = 2
    /\ the_tags[1] # the_tags[2]
    /\ Len(ret) = 1
    /\ ret[1].severity = "warning"
    /\ ret[1].details.current_tags = <<the_tags[1], the_tags[2]>>

\* C18: validate_images yields one error and no warning for a record with
\* no image, one warning that states the count k for a record of k images
\* with 0 < k < min_images, and nothing for k >= min_images; never the
\* error and the warning together.
C18_IssueByImageCount ==
    call = "validate_images" =>
        /\ Len(the_images) = 0 => Len(ret) = 1 /\ ret[1].severity = "error"
        /\ (0 < Len(the_images) /\ Len(the_images) < args.min_images) =>
              /\ Len(ret) = 1
              /\ ret[1].severity = "warning"
              /\ startswith(ret[1].message, MsgFound \o str_int(Len(the_images)))
        /\ Len(the_images) >= args.min_images => ret = <<>>
        /\ ~\E i, j \in 1..Len(ret) :
              ret[i].severity = "error" /\ ret[j].severity = "warning"

\* A record of MaxImages images under a minimum of one more: one warning
C18_Witness ==
    /\ call = "validate_images"
    /\ Len(the_images) = MaxImages
    /\ args.min_images = MaxImages + 1
    /\ Len(ret) = 1
    /\ ret[1].severity = "warning"

\* The tag has the shape of one or two digits, a hyphen, one or two digits,
\* a hyphen and four digits, and nothing else
date_shape(tag) ==
    \E ml, dl \in {1, 2} :
        /\ Len(tag) = ml + dl + 6
        /\ all_digits(SubSeq(tag, 1, ml))
        /\ tag[ml + 1] = "-"
        /\ all_digits(SubSeq(tag, ml + 2, ml + dl + 1))
        /\ tag[ml + dl + 2] = "-"
        /\ all_digits(SubSeq(tag, ml + dl + 3, ml + dl + 6))

\* The month, the day and the year of a tag of the shape
date_parts(tag) ==
    LET ml == CHOOSE n \in {1, 2} : tag[n + 1] = "-"
        dl == Len(tag) - ml - 6
    IN  [month |-> int_str(SubSeq(tag, 1, ml)),
         day   |-> int_str(SubSeq(tag, ml + 2, ml + dl + 1)),
         year  |-> int_str(SubSeq(tag, ml + dl + 3, ml + dl + 6)),
         year_text |-> SubSeq(tag, ml + dl + 3, ml + dl + 6)]

\* The parts denote a day of the calendar
calendar_date(parts) ==
    /\ parts.year >= 1
    /\ parts.month \in 1..12
    /\ parts.day >= 1
    /\ parts.day <= (IF parts.month = 2
                     THEN (IF parts.year % 4 = 0
                              /\ (parts.year % 100 # 0 \/ parts.year % 400 = 0)
                           THEN 29 ELSE 28)
                     ELSE IF parts.month \in {4, 6, 9, 11} THEN 30 ELSE 31)

two_digits(n) == IF n < 10 THEN <<"0">> \o str_int(n) ELSE str_int(n)

\* C20: parse_date_tag returns the pair of the zero-padded MM-DD-YYYY tag
\* and the YYYY-MM-DD value exactly for the tags of the shape month of one
\* or two digits, day of one or two digits, year of four digits that denote
\* a day of the calendar; for every other tag, an impossible date of the
\* shape included, it returns (None, None).
C20_PairExactlyForDates ==
    call = "parse_date_tag" =>
        IF date_shape(args) /\ calendar_date(date_parts(args))
        THEN LET parts == date_parts(args)
             IN  ret = << two_digits(parts.month) \o <<"-">> \o two_digits(parts.day)
                             \o <<"-">> \o parts.year_text,
                          parts.year_text \o <<"-">> \o two_digits(parts.month)
                             \o <<"-">> \o two_digits(parts.day) >>
        ELSE ret = <<NoneStr, NoneStr>>

\* The tags that do not end in a line break are parsed as stated: a pair
\* exactly for the dates
OneLineTagsParseAsStated ==
    (call = "parse_date_tag" /\ (args = <<>> \/ args[Len(args)] # "\n"))
        => C20_PairExactlyForDates

\* The first variant of the record, the empty dict when it has none
first_variant ==
    IF Get(the_product, "variants", <<>>) # <<>> THEN the_product.variants[1] ELSE <<>>

\* The value of a column of the row returned
column_value(row, column) == dict_get(row, column).value

\* The tag is a date tag: a month, a day and a year that denote a day of
\* the calendar
is_date_tag(tag) == date_shape(tag) /\ calendar_date(date_parts(tag))

\* The canonical MM-DD-YYYY form of a date tag
canonical_date(tag) ==
    two_digits(date_parts(tag).month) \o <<"-">> \o two_digits(date_parts(tag).day)
    \o <<"-">> \o date_parts(tag).year_text

\* C21: the Tags column of the core row lists one entry for each tag of the
\* record in the order of the tags: the canonical MM-DD-YYYY form for a
\* date tag, and the tag itself for a binding tag, a language tag and a tag
\* of no kind; none dropped, doubled or moved.
C21_TagsColumnKeepsEveryTag ==
    call = "map_product_data" =>
        column_value(ret, "Tags")
            = join(<<",", " ">>,
                   [i \in 1..Len(the_tags) |->
                       IF is_date_tag(the_tags[i]) THEN canonical_date(the_tags[i])
                       ELSE the_tags[i]])

\* Three tags, a language tag, a date tag that is not in its canonical
\* form and a tag of no kind: the Tags column holds the three in order
C21_Witness ==
    /\ call = "map_product_data"
    /\ the_tags = <<TagEnglish, TagDate, TagSigned>>
    /\ canonical_date(TagDate) # TagDate
    /\ column_value(ret, "Tags")
          = TagEnglish \o <<",", " ">> \o TagDatePadded \o <<",", " ">> \o TagSigned

\* The names of the language tags among the tags, in their order
language_names(tags) ==
    LET language_tags == SelectSeq(tags, LAMBDA tag :
                             ~is_date_tag(tag)
                             /\ \E i \in 1..Len(LANGUAGE_TAGS) : LANGUAGE_TAGS[i][1] = tag)
    IN  [k \in 1..Len(language_tags) |->
            LANGUAGE_TAGS[CHOOSE i \in 1..Len(LANGUAGE_TAGS) :
                             LANGUAGE_TAGS[i][1] = language_tags[k]][2]]

RECURSIVE quoted_list(_, _)
\* The first k names, each in double quotes, with ", " between them
quoted_list(names, k) ==
    IF k = 0 THEN <<>>
    ELSE (IF k = 1 THEN <<>> ELSE quoted_list(names, k - 1) \o <<",", " ">>)
         \o <<"\"">> \o names[k] \o <<"\"">>

\* C22: the names of the language tags of the record are collected in the
\* order of the tags, a name as often as its tag occurs, and the Language
\* column holds them in brackets, each in double quotes, with ", " between
\* them; a record with no language tag has no Language column in its core
\* row.
C22_LanguageColumnListsEveryTag ==
    call = "map_product_data" =>
        LET names == language_names(the_tags)
        IN  IF names = <<>> THEN ~dict_has(ret, ColLanguage)
            ELSE /\ dict_has(ret, ColLanguage)
                 /\ column_value(ret, ColLanguage)
                       = <<"[">> \o quoted_list(names, Len(names)) \o <<"]">>

\* Three language tags, the first and the last the same: three names
C22_Witness ==
    /\ call = "map_product_data"
    /\ the_tags = <<TagEnglish, TagFrench, TagEnglish>>
    /\ Len(language_names(the_tags)) = 3
    /\ column_value(ret, ColLanguage)
          = <<"[", "\"">> \o get_language_name(TagEnglish) \o <<"\"", ",", " ", "\"">>
            \o get_language_name(TagFrench) \o <<"\"", ",", " ", "\"">>
            \o get_language_name(TagEnglish) \o <<"\"", "]">>

\* The text without the blanks around it, the empty text for None
trimmed(text) == IF text = NoneStr THEN <<>> ELSE strip(text)

the_barcode == trimmed(Get(first_variant, "barcode", NoneStr))

the_sku == trimmed(Get(first_variant, "sku", NoneStr))

has_isbn_prefix(barcode) ==
    Len(barcode) >= 3 /\ SubSeq(barcode, 1, 3) \in {Isbn978, Isbn979}

\* C23: the Variant Barcode column of the core row holds the trimmed
\* barcode of the first variant as it is when it starts with 978 or 979 and
\* is 13 characters long, the empty text when it starts with 978 or 979 and
\* is of another length, and the trimmed barcode as it is, whatever its
\* length, when it starts with neither.
C23_BarcodeKeptOrCleared ==
    call = "map_product_data" =>
        column_value(ret, "Variant Barcode")
            = IF has_isbn_prefix(the_barcode) /\ Len(the_barcode) # 13 THEN <<>>
              ELSE the_barcode

\* A first variant whose barcode starts with 978 and is one character too
\* long: the column is empty
C23_Witness ==
    /\ call = "map_product_data"
    /\ has_isbn_prefix(the_barcode)
    /\ Len(the_barcode) = 14
    /\ column_value(ret, "Variant Barcode") = <<>>

\* C24: the Author column of the core row holds the trimmed SKU of the
\* first variant whenever that is not empty, the core row has no Author
\* column when the SKU is absent or empty, and the Variant Fulfillment
\* Service column is always 'manual'.
C24_AuthorIsSku ==
    call = "map_product_data" =>
        /\ the_sku # <<>> =>
              /\ dict_has(ret, ColAuthor)
              /\ column_value(ret, ColAuthor) = the_sku
        /\ the_sku = <<>> => ~dict_has(ret, ColAuthor)
        /\ column_value(ret, "Variant Fulfillment Service") = ManualText

\* A first variant whose SKU has blanks around it: the Author column holds
\* the SKU without them
C24_Witness ==
    /\ call = "map_product_data"
    /\ Get(first_variant, "sku", NoneStr) = <<" ">> \o SkuSmith \o <<" ">>
    /\ column_value(ret, ColAuthor) = SkuSmith
    /\ column_value(ret, "Variant SKU") = SkuSmith

\* The columns the mapper populates for the record and its issues: those of
\* the issues, of the core data and of the image rows
populated_columns(product, issues) ==
    keys(map_validation_issues(ValidationMapper, product, issues))
    \cup keys(map_product_data(ValidationMapper, product))
    \cup UNION {keys(row) : row \in {map_image_issues(ValidationMapper, product,
                                                      Get(product, "images", <<>>))[i] :
                                         i \in 1..Len(Get(product, "images", <<>>))}}

\* The first n entries of the sequence
prefix(s, n) == SubSeq(s, 1, IF n < Len(s) THEN n ELSE Len(s))

\* C25: the header of the correction file is the base list in its order
\* followed by the other columns of the rows, and every column the mapper
\* populates for a record of the file and its issues is in the header, the
\* 'Variant Taxable' column of a taxable issue among them.
C25_HeaderHoldsEveryPopulatedColumn ==
    call = "generate_import_csv" =>
        /\ prefix(ret.header, Len(base_columns)) = base_columns
        /\ \A i \in 1..Len(args) :
              (\E image \in 1..Len(Get(args[i].data.product, "images", <<>>)) : TRUE) =>
                  \A column \in populated_columns(args[i].data.product,
                                                  args[i].data.issues) :
                      \E c \in 1..Len(ret.header) : ret.header[c] = column

\* With a dict of fields, get_column_order returns the base list in its
\* order and behind it the keys of the dict that are not in the base list,
\* each once, sorted.
ColumnOrderWithFields ==
    call = "get_column_order" =>
        LET added == IF args = NoneList THEN {}
                     ELSE keys(args) \ {base_columns[c] : c \in 1..Len(base_columns)}
            tail == SubSeq(ret, Len(base_columns) + 1, Len(ret))
        IN  /\ prefix(ret, Len(base_columns)) = base_columns
            /\ {tail[i] : i \in 1..Len(tail)} = added
            /\ Len(tail) = Cardinality(added)
            /\ \A i, j \in 1..Len(tail) :
                  i < j => \E a, b \in 1..Len(SortedNames) :
                              a < b /\ SortedNames[a] = tail[i] /\ SortedNames[b] = tail[j]

\* The two texts are the same but for the case of their letters
same_letters(a, b) == lower(a) = lower(b)

\* The title begins with the text, whatever the case of the letters
begins_with(title, text) ==
    Len(title) >= Len(text) /\ same_letters(SubSeq(title, 1, Len(text)), text)

\* The title holds the text somewhere, whatever the case of the letters
holds(title, text) ==
    \E i \in 1..(Len(title) - Len(text) + 1) :
        same_letters(SubSeq(title, i, i + Len(text) - 1), text)

\* The declared patterns the title matches, by their positions in the list
declared_matches(title) ==
    {i \in 1..Len(partial_patterns) :
        IF partial_patterns[i].type = "starts_with"
        THEN begins_with(title, partial_patterns[i].pattern)
        ELSE holds(title, partial_patterns[i].pattern)}

\* C26: for a record with a title, the exact-title stage matches a title
\* that is, letter case included, one of the exact titles; after it a
\* 'starts_with' pattern matches the titles that begin with its text and a
\* 'contains' pattern those that hold its text anywhere, both whatever the
\* case of the letters, and the first pattern of the declared list that
\* matches supplies the reason.
C26_PatternsByTypeInDeclaredOrder ==
    (call = "should_exclude" /\ truthy(the_title)) =>
        IF the_title \in exact_titles
        THEN ret = <<TRUE, ExactTitlePrefix \o the_title>>
        ELSE IF declared_matches(the_title) # {}
        THEN ret = <<TRUE, PartialTitlePrefix
                           \o pattern_regex(partial_patterns[Min(declared_matches(the_title))])>>
        ELSE ~(ret[1] /\ (startswith(ret[2], PartialTitlePrefix)
                          \/ startswith(ret[2], ExactTitlePrefix)))

\* 'class: Gift Card' is excluded for the pattern 'Class:', which it begins
\* with in another letter case, not for 'Gift Card', which it also holds
C26_Witness ==
    /\ call = "should_exclude"
    /\ the_title = TitleLowerClassGift
    /\ declared_matches(the_title) = {1, 2}
    /\ ret = <<TRUE, PartialTitlePrefix \o <<"^">> \o PatClass>>

\* 'Cooking Class: Bread' holds 'Class:' but does not begin with it: with a
\* barcode and a handle no rule names, it is not excluded
C26_WitnessNotAtStart ==
    /\ call = "should_exclude"
    /\ the_title = TitleCookingClass
    /\ holds(the_title, PatClass)
    /\ ret = <<FALSE, NoneStr>>

\* The exact title in lower case is excluded by the pattern it holds, not as
\* an exact title
C26_WitnessExactInLowerCase ==
    /\ call = "should_exclude"
    /\ the_title = TitleLowerKAL
    /\ lower(TitleKALGiftCard) = the_title
    /\ ret[1]
    /\ startswith(ret[2], PartialTitlePrefix)

\* C27: in the dict generate_validation_report returns for a batch,
\* excluded_count and total_products add up to the number of records
\* fetched, issues_count is the number of keys of the issue map and at most
\* total_products, and every entry of the issue map holds a record of the
\* batch that the exclusion list does not exclude, under its id, with the
\* non-empty list of its issues.
C27_CountsAddUp ==
    result # NoResult =>
        /\ result.excluded_count + result.total_products = Len(products)
        /\ result.issues_count = Cardinality(issues_keys(result.issues))
        /\ result.issues_count <= result.total_products
        /\ \A k \in 1..Len(result.issues) :
              LET entry == result.issues[k]
              IN  /\ entry.data.issues # <<>>
                  /\ entry.data.issues = validate_product(validator, entry.data.product)
                  /\ ~should_exclude(exclusions, entry.data.product)[1]
                  /\ \E i \in 1..Len(products) :
                        /\ products[i] = entry.data.product
                        /\ products[i].id = entry.key

\* A report over a batch of an excluded record that fails the checks and a
\* record with issues under the same id: one excluded, one validated, one
\* entry
C27_Witness ==
    /\ result # NoResult
    /\ Len(products) = 2
    /\ products[1].id = products[2].id
    /\ validate_product(validator, products[1]) # <<>>
    /\ result.excluded_count = 1
    /\ result.total_products = 1
    /\ result.issues_count = 1

\* What came back for the query is a page: nodes and pageInfo
is_page(exchange) ==
    /\ "data" \in DOMAIN exchange.response
    /\ "products" \in DOMAIN exchange.response.data
    /\ "pageInfo" \in DOMAIN exchange.response.data.products

page_info(exchange) == exchange.response.data.products.pageInfo

RECURSIVE pages_nodes(_, _)
\* The nodes of the first k pages, page after page
pages_nodes(log, k) ==
    IF k = 0 THEN <<>>
    ELSE pages_nodes(log, k - 1)
         \o [i \in 1..Len(log[k].response.data.products.edges) |->
                log[k].response.data.products.edges[i].node]

\* C28: fetch_all_products sends the first page query with no cursor and
\* every later one with the endCursor of the page before, sends a further
\* query only after a page whose hasNextPage is true, returns, after the
\* first page whose hasNextPage is false, the nodes of all the pages in
\* their order, and when a query raises it raises and returns no list.
C28_CompleteCatalogOrFailure ==
    /\ \A i \in 1..(Len(server) - 1) :
          is_page(server[i]) /\ page_info(server[i]).hasNextPage
    /\ \A i \in 1..Len(server) :
          server[i].variables.after
              = IF i = 1 THEN NoneStr ELSE page_info(server[i - 1]).endCursor
    /\ fetch.pc = "loop" /\ server # <<>> => is_page(server[Len(server)])
    /\ fetch.pc = "returned" =>
          /\ server # <<>>
          /\ is_page(server[Len(server)])
          /\ ~page_info(server[Len(server)]).hasNextPage
          /\ fetch.ret = pages_nodes(server, Len(server))
    /\ fetch.pc = "raised" =>
          /\ server # <<>> => ~is_page(server[Len(server)])
          /\ fetch.ret \in {Raise(kind) : kind \in {"Exception", "KeyError", "ValueError"}}

\* Two pages, the second asked for with the cursor of the first, returned
\* as the nodes of the first and then of the second
C28_Witness ==
    /\ fetch.pc = "returned"
    /\ Len(server) = 2
    /\ server[1].variables.after = NoneStr
    /\ server[2].variables.after = <<"c", "1">>
    /\ fetch.ret = <<"p1", "p2", "p3">>

\* The second query raises after a page with a node was taken in: the
\* exception is what the caller gets
C28_WitnessFailure ==
    /\ fetch.pc = "raised"
    /\ Len(server) = 2
    /\ pages_nodes(server, 1) # <<>>
    /\ "exception" \in DOMAIN server[2].response
    /\ fetch.ret = Raise("Exception")

\* The response is an answer: status 200 and a body that holds 'data' and
\* no 'errors'
is_answer(outcome) ==
    /\ "status_code" \in DOMAIN outcome
    /\ outcome.status_code = 200
    /\ "json" \in DOMAIN outcome
    /\ "errors" \notin DOMAIN outcome.json
    /\ "data" \in DOMAIN outcome.json

\* The requests sent that got no answer
failures == {i \in 1..Len(retry.sent) : ~is_answer(retry.sent[i])}

\* At most max_retries requests are sent, none after an answer; attempt
\* counts each request without an answer once; the call returns the data of
\* the answer, and raises only after max_retries requests without one
retries_bounded ==
    /\ Len(retry.sent) <= retry.max_retries
    /\ \A i \in 1..(Len(retry.sent) - 1) : i \in failures
    /\ retry.attempt = Cardinality(failures)
    /\ retry.slept = retry.attempt * retry.delay
    /\ retry.pc = "loop" => failures = 1..Len(retry.sent)
    /\ retry.pc = "returned" =>
          /\ retry.sent # <<>>
          /\ is_answer(retry.sent[Len(retry.sent)])
          /\ retry.ret = retry.sent[Len(retry.sent)].json.data
    /\ retry.pc = "raised" =>
          /\ retry.ret = Raise("Exception")
          /\ Len(retry.sent) = retry.max_retries
          /\ failures = 1..retry.max_retries

\* C29: run_query_with_retries sends at most max_retries requests, returns
\* the data of the first response with status 200 and no 'errors' without
\* sending another, counts a response with another status, a response with
\* 'errors' and an exception each as one failed attempt, raises after
\* exactly max_retries failed attempts, and in every run returns or raises.
C29_BoundedRetriesAndTermination ==
    /\ [](retries_bounded)
    /\ <>(retry.pc \in {"returned", "raised"})

\* An exception, a status 500 and an 'errors' payload, one after the other,
\* use up the three attempts and the call raises
C29_Witness ==
    /\ retry.pc = "raised"
    /\ retry.max_retries = 3
    /\ retry.attempt = 3
    /\ "exception" \in DOMAIN retry.sent[1]
    /\ retry.sent[2] = [status_code |-> 500]
    /\ retry.sent[3] = [status_code |-> 200, json |-> [errors |-> "e1"]]

\* The second response is the first answer: its data is returned after two
\* requests with one attempt counted
C29_WitnessAnswer ==
    /\ retry.pc = "returned"
    /\ retry.max_retries = 3
    /\ Len(retry.sent) = 2
    /\ retry.attempt = 1
    /\ retry.ret = "d1"

\* The invocations before the k-th that lie less than per_seconds before it
recorded_before(k) ==
    {j \in 1..(k - 1) :
        wrapper.invoked[k].time - wrapper.invoked[j].time < limiter.per_seconds}

\* The exception of the invocation is a rate-limit error: its message holds
\* 'Exceeded' or '429'
rate_limited(invocation) ==
    /\ "exception" \in DOMAIN invocation.outcome
    /\ \E text \in {KwExceeded, Kw429} :
          \E i \in 1..(Len(invocation.outcome.exception) - Len(text) + 1) :
              SubSeq(invocation.outcome.exception, i, i + Len(text) - 1) = text

\* C30: in one call of the wrapper of a rate limiter, the function is
\* invoked only when fewer than max_calls of its invocations lie within the
\* last per_seconds, at most max_retries times, and again only after an
\* invocation that raised a rate-limit error; its value is returned and any
\* other exception is raised at once; every iteration, invoking or waiting
\* for a slot, uses up one of the max_retries attempts, and 'Max retries
\* exceeded' is raised when they are used up.
C30_InvocationsWithinLimits ==
    wrapper.pc # "idle" =>
        /\ \A k \in 1..Len(wrapper.invoked) :
              Cardinality(recorded_before(k)) < limiter.max_calls
        /\ Len(wrapper.invoked) <= limiter.max_retries
        /\ \A k \in 1..(Len(wrapper.invoked) - 1) : rate_limited(wrapper.invoked[k])
        /\ (wrapper.pc = "loop" /\ wrapper.invoked # <<>>) =>
              rate_limited(wrapper.invoked[Len(wrapper.invoked)])
        /\ wrapper.pc = "loop" =>
              wrapper.attempt = Len(wrapper.invoked) + wrapper.waited
        /\ wrapper.pc = "returned" =>
              wrapper.ret = wrapper.invoked[Len(wrapper.invoked)].outcome.returned
        /\ wrapper.pc = "raised" =>
              IF wrapper.ret = Raise(MsgMaxRetries)
              THEN /\ Len(wrapper.invoked) + wrapper.waited = limiter.max_retries
                   /\ wrapper.invoked # <<>> =>
                         rate_limited(wrapper.invoked[Len(wrapper.invoked)])
              ELSE /\ wrapper.invoked # <<>>
                   /\ ~rate_limited(wrapper.invoked[Len(wrapper.invoked)])
                   /\ wrapper.ret
                         = Raise(wrapper.invoked[Len(wrapper.invoked)].outcome.exception)

\* 'Max retries exceeded' after three iterations of which one waited for a
\* slot: the function was invoked twice
C30_Witness ==
    /\ wrapper.pc = "raised"
    /\ wrapper.ret = Raise(MsgMaxRetries)
    /\ limiter.max_retries = 3
    /\ limiter.max_calls = 1
    /\ wrapper.waited = 1
    /\ Len(wrapper.invoked) = 2

\* An exception whose message holds 'exceeded' in lower case is no
\* rate-limit error: it is raised at the first invocation
C30_WitnessOtherError ==
    /\ wrapper.pc = "raised"
    /\ Len(wrapper.invoked) = 1
    /\ wrapper.attempt = 0
    /\ wrapper.ret = Raise(MsgLowerExceeded)
=============================================================================
